---- MODULE Spec2Model ----
(***************************************************************************)
(* Model of modin's lazy partition layer.                                  *)
(*                                                                         *)
(*   - PandasOnRayFramePartition (engines/ray/pandas_on_ray/frame/         *)
(*     partition.py): a handle (oid) to a remote block, a call queue and   *)
(*     cached length / width / ip, with the remote functions               *)
(*     deploy_ray_func and get_index_and_columns.                          *)
(*   - PandasOnDaskFramePartitionManager (engines/dask/pandas_on_dask/     *)
(*     frame/partition_manager.py): get_indices and broadcast_apply over   *)
(*     a grid of partitions, with the remote function deploy_func.         *)
(*                                                                         *)
(* A block (pandas object) is abstracted to its kind (DataFrame or Index), *)
(* its row labels, its column labels and whether its backing storage is    *)
(* read-only.  A deferred operation (func, kwargs) is abstracted to a      *)
(* name; Func gives its effect.                                            *)
(***************************************************************************)
EXTENDS Integers, Sequences, FiniteSets, TLC

VARIABLES
    tasks,   \* Ray: the remote calls issued so far (ray.put / .remote), in order
    parts,   \* Ray: the PandasOnRayFramePartition objects created so far
    history, \* Ray: per partition, the block it was built from and the operations
             \*      the client has appended since, in order
    last,    \* Ray: the last call made by the client and what it returned
    futures, \* Dask: the futures of the client (scattered blocks and submitted calls)
    left,    \* Dask: a grid of partitions
    right,   \* Dask: the grid broadcast to left
    mlast,   \* Dask: the last partition-manager call and what it returned
    threads, \* Ray: per client thread, the method it is in, its position in it
             \*      and its local variables
    heap     \* Ray: the list object behind each partition's call_queue attribute
             \*      (ids) and the content of each list object (lists)

rayvars == <<tasks, parts, history, last>>
daskvars == <<futures, left, right, mlast>>
vars == <<tasks, parts, history, last, futures, left, right, mlast, threads, heap>>

\* ----------------------------------------------------------------- bounds
MaxParts == 3    \* partition objects created in one behaviour
MaxTasks == 3    \* remote calls (ray.put included) issued in one behaviour
MaxQueue == 2    \* length of a call queue
NumNodes == 2    \* nodes of the cluster
MaxDim == 2      \* rows, and columns, of a grid

\* ----------------------------------------------------------------- blocks
NoDf == [kind |-> "none", index |-> <<>>, columns |-> <<>>, ro |-> FALSE]

Frame(idx, cols) == [kind |-> "frame", index |-> idx, columns |-> cols, ro |-> FALSE]

\* The block a client puts: a 3x2 frame.
Blocks == { Frame(<<0, 1, 2>>, <<7, 8>>) }

\* df.copy(): same labels, fresh writable storage.
Copy(df) == [df EXCEPT !.ro = FALSE]

Ok(df) == [err |-> "", df |-> df]
Raise(e) == [err |-> e, df |-> NoDf]

\* Positional selectors of mask: the slices 1:3, 0:1 and : (everything), and
\* the list [0, 2].
IsSlice(sel) == sel \in {"1:3", "0:1", ":"}
Start(sel) == IF sel = "1:3" THEN 1 ELSE 0
Stop(sel, n) == IF sel = "1:3" THEN 3 ELSE IF sel = "0:1" THEN 1 ELSE n
Min(a, b) == IF a <= b THEN a ELSE b

\* compute_sliced_len(slc, sequence_len): the number of positions the slice
\* selects in a sequence of that length.
compute_sliced_len(slc, sequence_len) ==
    IF Min(Stop(slc, sequence_len), sequence_len) > Min(Start(slc), sequence_len)
    THEN Min(Stop(slc, sequence_len), sequence_len) - Min(Start(slc), sequence_len)
    ELSE 0

\* The labels a selector keeps: a slice is clipped to the sequence, a list
\* position outside it raises IndexError.
Take(seq, sel) ==
    IF IsSlice(sel)
    THEN [err |-> "", seq |-> SubSeq(seq, Min(Start(sel), Len(seq)) + 1,
                                     Min(Stop(sel, Len(seq)), Len(seq)))]
    ELSE IF Len(seq) >= 3 THEN [err |-> "", seq |-> <<seq[1], seq[3]>>]
    ELSE [err |-> "IndexError", seq |-> <<>>]

\* df.iloc[rows, cols]
iloc_return(df, r, c) ==
    IF r.err # "" THEN [err |-> r.err, df |-> NoDf]
    ELSE IF c.err # "" THEN [err |-> c.err, df |-> NoDf]
    ELSE [err |-> "", df |-> [df EXCEPT !.index = r.seq, !.columns = c.seq]]

iloc(df, rows, cols) ==
    IF df.kind # "frame" THEN [err |-> "AttributeError", df |-> NoDf]
    ELSE iloc_return(df, Take(df.index, rows), Take(df.columns, cols))

\* The name of the operation mask queues for a pair of selectors, and the
\* selectors of such an operation.
RowSelectors == {"1:3", "[0,2]"}
ColSelectors == {":", "0:1"}
IlocOp(rows, cols) ==
    CASE rows = "1:3" /\ cols = ":" -> "iloc[1:3,:]"
      [] rows = "1:3" /\ cols = "0:1" -> "iloc[1:3,0:1]"
      [] rows = "[0,2]" /\ cols = ":" -> "iloc[[0,2],:]"
      [] OTHER -> "iloc[[0,2],0:1]"
IlocOps == { IlocOp(rows, cols) : rows \in RowSelectors, cols \in ColSelectors }
RowsOf(op) == IF op \in {"iloc[1:3,:]", "iloc[1:3,0:1]"} THEN "1:3" ELSE "[0,2]"
ColsFor(op) == IF op \in {"iloc[1:3,:]", "iloc[[0,2],:]"} THEN ":" ELSE "0:1"

\* The deferred operations a client queues.
Ops == {"tail", "T", "index", "fail"}

\* func(partition, **kwargs): the outcome of one deferred operation on a block.
\*   tail    : lambda df: df[1:]          (a view: keeps the storage)
\*   T       : lambda df: df.T            (an Index is its own transpose)
\*   index   : lambda df: df.index        (an Index has no .index)
\*   columns : lambda df: df.columns      (used as index_func only)
\*   freeze  : returns the block over read-only backing storage
\*   setitem : writes in place, then returns the block; a read-only block
\*             raises ValueError
\*   fail    : raises an error that is not a ValueError
\*   identity: lambda df: df              (queued by ip() only)
\*   iloc[..]: the selection queued by mask
Func(op, df) ==
    CASE op = "tail" ->
            Ok([df EXCEPT !.index = IF df.index = <<>> THEN <<>> ELSE Tail(df.index)])
      [] op = "T" ->
            IF df.kind = "frame"
            THEN Ok([df EXCEPT !.index = df.columns, !.columns = df.index])
            ELSE Ok(df)
      [] op = "index" ->
            IF df.kind = "frame"
            THEN Ok([kind |-> "index", index |-> df.index, columns |-> <<>>, ro |-> FALSE])
            ELSE Raise("AttributeError")
      [] op = "columns" ->
            IF df.kind = "frame"
            THEN Ok([kind |-> "index", index |-> df.columns, columns |-> <<>>, ro |-> FALSE])
            ELSE Raise("AttributeError")
      [] op = "freeze" -> Ok([df EXCEPT !.ro = TRUE])
      [] op = "identity" -> Ok(df)
      [] op = "setitem" ->
            IF df.ro THEN Raise("ValueError")
            ELSE Ok([df EXCEPT !.index = [i \in DOMAIN df.index |-> 9]])
      [] op \in IlocOps -> iloc(df, RowsOf(op), ColsFor(op))
      [] OTHER -> Raise("RuntimeError")

\* ------------------------------------------------- remote functions (Ray)
\* The outcome of a remote call: the error it raised (err), or its outputs:
\* a block (df), two integers (n1, n2) and a node id (node).
Failed(e) == [err |-> e, df |-> NoDf, n1 |-> 0, n2 |-> 0, node |-> 0]
NoOut == Failed("")

\* Mutant: the except clause is left out.
Mutant_no_retry(op, df, r) == r

\* except ValueError: result = func(partition.copy(), **kwargs)
Retry(op, df, r) == IF r.err = "ValueError" THEN Func(op, Copy(df)) ELSE r

\* One iteration of deploy_ray_func: try func(partition), and on ValueError
\* func(partition.copy()).
TryCall(op, df) == Retry(op, df, Func(op, df))

\* The loop over call_queue[:-1]; an error other than ValueError ends it.
RECURSIVE RunQueue(_, _)
Continue(q, r) == IF r.err # "" THEN r ELSE RunQueue(q, r.df)
RunQueue(q, df) ==
    IF q = <<>> THEN Ok(df) ELSE Continue(Tail(q), TryCall(Head(q), df))

\* func, kwargs = call_queue[-1] and its try / except, on the block the loop left.
LastCall(call_queue, acc) ==
    IF acc.err # "" THEN acc ELSE TryCall(call_queue[Len(call_queue)], acc.df)

\* len(result) if hasattr(result, "__len__") else 0
LenOf(df) == IF df.kind \in {"frame", "index"} THEN Len(df.index) ELSE 0
\* len(result.columns) if hasattr(result, "columns") else 0
ColsOf(df) == IF df.kind = "frame" THEN Len(df.columns) ELSE 0

\* The return statement of deploy_ray_func.
Outputs(res, node) ==
    IF res.err # "" THEN Failed(res.err)
    ELSE [err |-> "", df |-> res.df, n1 |-> LenOf(res.df), n2 |-> ColsOf(res.df),
          node |-> node]

\* Mutant: the loop over call_queue[:-1] is left out.
Mutant_deploy_last_only(call_queue, partition, node) ==
    IF call_queue = <<>> THEN Failed("IndexError")
    ELSE Outputs(LastCall(call_queue, Ok(partition)), node)

\* deploy_ray_func(call_queue, partition), run on `node`.
deploy_ray_func(call_queue, partition, node) ==
    IF call_queue = <<>> THEN Failed("IndexError")
    ELSE Outputs(LastCall(call_queue,
                          RunQueue(SubSeq(call_queue, 1, Len(call_queue) - 1), partition)),
                 node)

\* get_index_and_columns(df): len(df.index), len(df.columns).
get_index_and_columns(df) ==
    IF df.kind = "frame"
    THEN [err |-> "", df |-> NoDf, n1 |-> Len(df.index), n2 |-> Len(df.columns), node |-> 0]
    ELSE Failed("AttributeError")

\* ------------------------------------------------------- object store (Ray)
\* An ObjectRef: output i of remote call t.  A remote call is a record
\*   fn    : "put" (ray.put), "deploy" (deploy_ray_func.remote),
\*           "getidx" (get_index_and_columns.remote) or "sliced"
\*           (compute_sliced_len.remote)
\*   queue : the call queue passed to deploy_ray_func; for "sliced", the slice
\*   arg   : the ObjectRef passed as the block
\*   node  : the node the scheduler places the call on (round-robin)
\*   done  : whether a worker has run it; then out is its outcome
\* The outputs of a deploy call are 0: df, 1: n1, 2: n2, 3: node; those of a
\* getidx call are 0: n1, 1: n2; a put has the single output 0: df and a
\* sliced call the single output 0: n1.
Scheduler(ts) == (Len(ts) % NumNodes) + 1

ObjectRef(t, i) == [t |-> t, i |-> i]

Remote(ts, fn, queue, arg) ==
    Append(ts, [fn |-> fn, queue |-> queue, arg |-> arg, node |-> Scheduler(ts),
                done |-> FALSE, out |-> NoOut])

\* ray.put(obj): the object is in the store at once.
ray_put(ts, obj) ==
    Append(ts, [fn |-> "put", queue |-> <<>>, arg |-> ObjectRef(0, 0), node |-> 0,
                done |-> TRUE, out |-> [NoOut EXCEPT !.df = obj]])

\* A worker runs call tk on the outcome src of its argument: a failed
\* argument fails the call with the same error.
Run(tk, src) ==
    IF src.err # "" THEN Failed(src.err)
    ELSE IF tk.fn = "deploy" THEN deploy_ray_func(tk.queue, src.df, tk.node)
    ELSE get_index_and_columns(src.df)

\* The integer that output i of the finished call src holds.
IntOut(src, i) ==
    IF src.fn = "deploy" THEN (IF i = 1 THEN src.out.n1 ELSE src.out.n2)
    ELSE IF src.fn = "getidx" THEN (IF i = 0 THEN src.out.n1 ELSE src.out.n2)
    ELSE src.out.n1

\* A worker runs compute_sliced_len(slc, sequence_len) on the integer its
\* argument resolves to.
RunSliced(tk, src) ==
    IF src.out.err # "" THEN Failed(src.out.err)
    ELSE [NoOut EXCEPT !.n1 = compute_sliced_len(tk.queue[1], IntOut(src, tk.arg.i))]

Execute(ts, t) ==
    [ts[t] EXCEPT !.done = TRUE,
                  !.out = IF ts[t].fn = "sliced" THEN RunSliced(ts[t], ts[ts[t].arg.t])
                          ELSE Run(ts[t], ts[ts[t].arg.t].out)]

\* The pending calls that call t waits for, t included.
Chain(ts, t) ==
    LET f[k \in 0..Len(ts)] ==
            IF k = 0 THEN {} ELSE IF ts[k].done THEN {} ELSE {k} \cup f[ts[k].arg.t]
    IN  f[t]

\* Blocking on call t: the calls it waits for run, oldest first.
Force(ts, t) ==
    LET g[k \in 0..t] ==
            IF k = 0 THEN ts
            ELSE IF k \in Chain(ts, t) THEN [g[k - 1] EXCEPT ![k] = Execute(g[k - 1], k)]
            ELSE g[k - 1]
    IN  g[t]

\* What a client call returns: the error raised (err), or a block (df) or an
\* integer (n).
Val(err, df, n) == [err |-> err, df |-> df, n |-> n]
NoVal == Val("", NoDf, 0)

\* Mutant: the error of a failed call is not raised.
Mutant_output_drops_error(tk, i) ==
    IF tk.fn = "put" THEN Val("", tk.out.df, 0)
    ELSE IF tk.fn = "sliced" THEN Val("", NoDf, tk.out.n1)
    ELSE IF tk.fn = "getidx" THEN Val("", NoDf, IF i = 0 THEN tk.out.n1 ELSE tk.out.n2)
    ELSE IF i = 0 THEN Val("", tk.out.df, 0)
    ELSE Val("", NoDf, IF i = 1 THEN tk.out.n1 ELSE IF i = 2 THEN tk.out.n2 ELSE tk.out.node)

\* Output i of the finished call tk.
Output(tk, i) ==
    IF tk.out.err # "" THEN Val(tk.out.err, NoDf, 0)
    ELSE IF tk.fn = "put" THEN Val("", tk.out.df, 0)
    ELSE IF tk.fn = "sliced" THEN Val("", NoDf, tk.out.n1)
    ELSE IF tk.fn = "getidx" THEN Val("", NoDf, IF i = 0 THEN tk.out.n1 ELSE tk.out.n2)
    ELSE IF i = 0 THEN Val("", tk.out.df, 0)
    ELSE Val("", NoDf, IF i = 1 THEN tk.out.n1 ELSE IF i = 2 THEN tk.out.n2 ELSE tk.out.node)

Fetch(ts, ref) == [tasks |-> ts, val |-> Output(ts[ref.t], ref.i)]

\* ray.get(ref): blocks until the call is done, then returns its output or
\* raises its error.
ray_get(ts, ref) == Fetch(Force(ts, ref.t), ref)

\* --------------------------------------------- PandasOnRayFramePartition
\* A cache is None, an ObjectRef or a resolved integer.
None == [k |-> "none", t |-> 0, i |-> 0, v |-> 0]
RefC(t, i) == [k |-> "ref", t |-> t, i |-> i, v |-> 0]
IntC(n) == [k |-> "int", t |-> 0, i |-> 0, v |-> n]

\* __init__(object_id, length, width, ip, call_queue)
PandasOnRayFramePartition(object_id, length, width, ip, call_queue) ==
    [oid |-> object_id, call_queue |-> call_queue,
     length_cache |-> length, width_cache |-> width, ip_cache |-> ip]

NoPart == PandasOnRayFramePartition(ObjectRef(0, 0), None, None, None, <<>>)

\* The four ObjectRefs deploy_ray_func.remote returns, as a partition's fields.
Deployed(t) ==
    PandasOnRayFramePartition(ObjectRef(t, 0), RefC(t, 1), RefC(t, 2), RefC(t, 3), <<>>)

\* A method's effect: the receiver and the store after the call, and what
\* the call returned.
Result(self, ts, ret) == [self |-> self, tasks |-> ts, ret |-> ret]

\* Mutant: the new call goes to the front of the queue.
Mutant_add_to_front(self, op) ==
    PandasOnRayFramePartition(self.oid, None, None, None, <<op>> \o self.call_queue)

\* Mutant: the new partition inherits the receiver's caches.
Mutant_add_keeps_caches(self, op) ==
    PandasOnRayFramePartition(self.oid, self.length_cache, self.width_cache, self.ip_cache,
                              self.call_queue \o <<op>>)

\* add_to_apply_calls(func, **kwargs): the new partition.
add_to_apply_calls(self, op) ==
    PandasOnRayFramePartition(self.oid, None, None, None, self.call_queue \o <<op>>)

\* Mutant: the receiver's queue is forgotten.
Mutant_apply_func_only(self, ts, op) ==
    Result(Deployed(Len(ts) + 1), Remote(ts, "deploy", <<op>>, self.oid), NoVal)

\* apply(func, **kwargs): the new partition (as self) and the store.
apply(self, ts, op) ==
    Result(Deployed(Len(ts) + 1),
           Remote(ts, "deploy", self.call_queue \o <<op>>, self.oid),
           NoVal)

\* Mutant: no early return on an empty queue.
Mutant_drain_no_guard(self, ts) ==
    Result(Deployed(Len(ts) + 1), Remote(ts, "deploy", self.call_queue, self.oid), NoVal)

\* Mutant: the queue is not emptied after the dispatch.
Mutant_drain_keeps_queue(self, ts) ==
    IF Len(self.call_queue) = 0
    THEN Result(self, ts, NoVal)
    ELSE Result([Deployed(Len(ts) + 1) EXCEPT !.call_queue = self.call_queue],
                Remote(ts, "deploy", self.call_queue, self.oid),
                NoVal)

\* drain_call_queue()
drain_call_queue(self, ts) ==
    IF Len(self.call_queue) = 0
    THEN Result(self, ts, NoVal)
    ELSE Result(Deployed(Len(ts) + 1),
                Remote(ts, "deploy", self.call_queue, self.oid),
                NoVal)

\* return ray.get(self.oid)
get_return(d) == Result(d.self, ray_get(d.tasks, d.self.oid).tasks,
                        ray_get(d.tasks, d.self.oid).val)

\* get()
get(self, ts) ==
    get_return(IF Len(self.call_queue) # 0
               THEN drain_call_queue(self, ts)
               ELSE Result(self, ts, NoVal))

\* __copy__()
copy(self) ==
    PandasOnRayFramePartition(self.oid, self.length_cache, self.width_cache,
                              self.ip_cache, self.call_queue)

\* The ObjectRef a pending cache holds.
CacheRef(c) == ObjectRef(c.t, c.i)

\* The cache the base class's mask gives the new partition: the sliced
\* length when the selector is a slice and the parent's cache is a resolved
\* integer, unknown otherwise.
base_cache(sel, cache) ==
    IF IsSlice(sel) /\ cache.k = "int" THEN IntC(compute_sliced_len(sel, cache.v))
    ELSE None

\* super().mask(row_indices, col_indices): a new partition over the same
\* handle whose queue ends with the selection.
base_mask(self, rows, cols) ==
    [add_to_apply_calls(self, IlocOp(rows, cols))
        EXCEPT !.length_cache = base_cache(rows, self.length_cache),
               !.width_cache = base_cache(cols, self.width_cache)]

\* compute_sliced_len.remote(slc, ref)
sliced_remote(ts, slc, ref) ==
    Append(ts, [fn |-> "sliced", queue |-> <<slc>>, arg |-> ref, node |-> Scheduler(ts),
                done |-> FALSE, out |-> NoOut])

\* Mutant: the parent's pending length is copied unsliced.
Mutant_mask_length_unsliced(new_obj, self, ts, rows) ==
    IF IsSlice(rows) /\ self.length_cache.k = "ref"
    THEN Result([new_obj EXCEPT !.length_cache = self.length_cache], ts, NoVal)
    ELSE Result(new_obj, ts, NoVal)

\* mask, lines 208-213: the parent's length is a reference.
mask_length(new_obj, self, ts, rows) ==
    IF IsSlice(rows) /\ self.length_cache.k = "ref"
    THEN Result([new_obj EXCEPT !.length_cache = RefC(Len(ts) + 1, 0)],
                sliced_remote(ts, rows, CacheRef(self.length_cache)), NoVal)
    ELSE Result(new_obj, ts, NoVal)

\* mask, lines 214-219: the parent's width is a reference.
mask_width(r, self, cols) ==
    IF IsSlice(cols) /\ self.width_cache.k = "ref"
    THEN Result([r.self EXCEPT !.width_cache = RefC(Len(r.tasks) + 1, 0)],
                sliced_remote(r.tasks, cols, CacheRef(self.width_cache)), NoVal)
    ELSE r

\* mask(row_indices, col_indices)
mask(self, ts, rows, cols) ==
    mask_width(mask_length(base_mask(self, rows, cols), self, ts, rows), self, cols)

\* Mutant: length and width are taken from the wrong axes.
Mutant_put_swapped(ts, obj) ==
    Result(PandasOnRayFramePartition(ObjectRef(Len(ts) + 1, 0), IntC(Len(obj.columns)),
                                     IntC(Len(obj.index)), None, <<>>),
           ray_put(ts, obj),
           NoVal)

\* put(obj): the new partition (as self) and the store.
put(ts, obj) ==
    Result(PandasOnRayFramePartition(ObjectRef(Len(ts) + 1, 0), IntC(Len(obj.index)),
                                     IntC(Len(obj.columns)), None, <<>>),
           ray_put(ts, obj),
           NoVal)

\* Mutant: only the length cache is set from the introspection call.
Mutant_introspect_length_only(self, ts) ==
    Result([self EXCEPT !.length_cache = RefC(Len(ts) + 1, 0)],
           Remote(ts, "getidx", <<>>, self.oid),
           NoVal)

\* self._length_cache, self._width_cache = get_index_and_columns.remote(self.oid)
Introspect(self, ts) ==
    Result([self EXCEPT !.length_cache = RefC(Len(ts) + 1, 0),
                        !.width_cache = RefC(Len(ts) + 1, 1)],
           Remote(ts, "getidx", <<>>, self.oid),
           NoVal)

\* Mutant: the queue is not looked at.
Mutant_length_ignores_queue(self, ts) ==
    IF self.length_cache.k = "none" THEN Introspect(self, ts) ELSE Result(self, ts, NoVal)

\* length(), line 265-271: the cache is None.
length_fill(self, ts) ==
    IF self.length_cache.k = "none"
    THEN IF Len(self.call_queue) # 0 THEN drain_call_queue(self, ts) ELSE Introspect(self, ts)
    ELSE Result(self, ts, NoVal)

\* self._length_cache = ray.get(self._length_cache)
length_get(self, g) ==
    IF g.val.err # "" THEN Result(self, g.tasks, g.val)
    ELSE Result([self EXCEPT !.length_cache = IntC(g.val.n)], g.tasks, g.val)

\* length(), line 272-274.
length_return(s) ==
    IF s.self.length_cache.k = "ref"
    THEN length_get(s.self, ray_get(s.tasks, CacheRef(s.self.length_cache)))
    ELSE Result(s.self, s.tasks, Val("", NoDf, s.self.length_cache.v))

\* length()
length(self, ts) == length_return(length_fill(self, ts))

\* width(), line 285-291.
width_fill(self, ts) ==
    IF self.width_cache.k = "none"
    THEN IF Len(self.call_queue) # 0 THEN drain_call_queue(self, ts) ELSE Introspect(self, ts)
    ELSE Result(self, ts, NoVal)

\* self._width_cache = ray.get(self._width_cache)
width_get(self, g) ==
    IF g.val.err # "" THEN Result(self, g.tasks, g.val)
    ELSE Result([self EXCEPT !.width_cache = IntC(g.val.n)], g.tasks, g.val)

\* width(), line 292-294.
width_return(s) ==
    IF s.self.width_cache.k = "ref"
    THEN width_get(s.self, ray_get(s.tasks, CacheRef(s.self.width_cache)))
    ELSE Result(s.self, s.tasks, Val("", NoDf, s.self.width_cache.v))

\* width()
width(self, ts) == width_return(width_fill(self, ts))

\* self._ip_cache = self.apply(lambda df: df)._ip_cache
ip_apply(self, a) == Result([self EXCEPT !.ip_cache = a.self.ip_cache], a.tasks, NoVal)

\* ip(), line 305-309.
ip_fill(self, ts) ==
    IF self.ip_cache.k = "none"
    THEN IF Len(self.call_queue) # 0
         THEN drain_call_queue(self, ts)
         ELSE ip_apply(self, apply(self, ts, "identity"))
    ELSE Result(self, ts, NoVal)

\* self._ip_cache = ray.get(self._ip_cache)
ip_get(self, g) ==
    IF g.val.err # "" THEN Result(self, g.tasks, g.val)
    ELSE Result([self EXCEPT !.ip_cache = IntC(g.val.n)], g.tasks, g.val)

\* ip(), line 310-312.
ip_return(s) ==
    IF s.self.ip_cache.k = "ref"
    THEN ip_get(s.self, ray_get(s.tasks, CacheRef(s.self.ip_cache)))
    ELSE Result(s.self, s.tasks, Val("", NoDf, s.self.ip_cache.v))

\* ip()
ip(self, ts) == ip_return(ip_fill(self, ts))

\* ------------------------------------------------- remote functions (Dask)
\* The loop of deploy_func over a call queue: df = call(df, **kwargs), with
\* no retry; an error ends it.
RECURSIVE ApplyCalls(_, _)
ApplyCalls(q, r) ==
    IF q = <<>> \/ r.err # "" THEN r ELSE ApplyCalls(Tail(q), Func(Head(q), r.df))

\* The labels of the blocks, one block after the other.
RECURSIVE Flatten(_)
Flatten(seqs) == IF seqs = <<>> THEN <<>> ELSE Head(seqs) \o Flatten(Tail(seqs))

\* The labels of the blocks, each label once, in order of first appearance.
RECURSIVE Union(_)
Union(seqs) ==
    IF seqs = <<>> THEN <<>>
    ELSE LET rest == Union(SubSeq(seqs, 1, Len(seqs) - 1))
         IN  rest \o SelectSeq(seqs[Len(seqs)], LAMBDA x : \A i \in DOMAIN rest : rest[i] # x)

\* pandas.concat(others, axis): along axis 0 the rows follow each other and
\* the columns are joined; along axis 1 the columns follow each other.
Concat(blocks, axis) ==
    IF blocks = <<>> THEN Raise("ValueError")
    ELSE IF axis = 0
    THEN Ok(Frame(Flatten([i \in DOMAIN blocks |-> blocks[i].index]),
                  Union([i \in DOMAIN blocks |-> blocks[i].columns])))
    ELSE Ok(Frame(Union([i \in DOMAIN blocks |-> blocks[i].index]),
                  Flatten([i \in DOMAIN blocks |-> blocks[i].columns])))

\* apply_func(df, r=other), the function the caller broadcasts: its result
\* lists the labels of df, then those of other.
apply_func(df, other) ==
    IF other.err # "" THEN other
    ELSE Ok(Frame(df.index \o other.df.index, df.columns \o other.df.columns))

\* mapper(df, others) of broadcast_apply.
mapper(df, others, axis) ==
    apply_func(df, Concat([i \in DOMAIN others |-> others[i].df], 1 - axis))

\* The first error among the outcomes, "" when there is none.
FirstErr(rs) ==
    IF \A i \in DOMAIN rs : rs[i].err = "" THEN ""
    ELSE rs[CHOOSE i \in DOMAIN rs :
                rs[i].err # "" /\ \A j \in 1..(i - 1) : rs[j].err = ""].err

\* return apply_func(df, new_others), once both loops are over.
deploy_func_return(r, new_others, axis) ==
    IF r.err # "" THEN r
    ELSE IF FirstErr(new_others) # "" THEN Raise(FirstErr(new_others))
    ELSE mapper(r.df, new_others, axis)

\* Mutant: the queue of df is applied to the other blocks as well.
Mutant_deploy_func_one_queue(df, axis, call_queue_df, call_queues_other, others) ==
    deploy_func_return(
        ApplyCalls(call_queue_df, Ok(df)),
        [i \in DOMAIN call_queues_other |-> ApplyCalls(call_queue_df, Ok(others[i]))],
        axis)

\* deploy_func(df, apply_func, call_queue_df, call_queues_other, *others),
\* with apply_func the mapper of broadcast_apply(axis, ...).
deploy_func(df, axis, call_queue_df, call_queues_other, others) ==
    deploy_func_return(
        ApplyCalls(call_queue_df, Ok(df)),
        [i \in DOMAIN call_queues_other |-> ApplyCalls(call_queues_other[i], Ok(others[i]))],
        axis)

\* --------------------------------------------------------- futures (Dask)
\* A future is the index of a record of `futures`:
\*   fn     : "data" (a block in the cluster), "apply" (the call submitted by
\*            PandasOnDaskFramePartition.apply) or "deploy_func"
\*   df     : the future passed as the block
\*   call_queue_df, call_queues_other, others, axis : the other arguments
\*   done   : whether a worker has run it; then out is its outcome
Data(block) ==
    [fn |-> "data", df |-> 0, call_queue_df |-> <<>>, call_queues_other |-> <<>>,
     others |-> <<>>, axis |-> 0, done |-> TRUE, out |-> Ok(block)]

\* client.submit(...)
Submit(fs, fn, df, axis, call_queue_df, call_queues_other, others) ==
    Append(fs, [fn |-> fn, df |-> df, call_queue_df |-> call_queue_df,
                call_queues_other |-> call_queues_other, others |-> others,
                axis |-> axis, done |-> FALSE, out |-> Ok(NoDf)])

\* The first failure among the futures a call depends on, "" when none.
DepErr(fs, fu) ==
    IF fs[fu.df].out.err # "" THEN fs[fu.df].out.err
    ELSE FirstErr([i \in DOMAIN fu.others |-> fs[fu.others[i]].out])

\* A worker runs the call fu, whose futures are resolved (Dask passes their
\* values; a failed one fails the call).
DaskRun(fs, fu) ==
    IF DepErr(fs, fu) # "" THEN Raise(DepErr(fs, fu))
    ELSE IF fu.fn = "apply" THEN RunQueue(fu.call_queue_df, fs[fu.df].out.df)
    ELSE deploy_func(fs[fu.df].out.df, fu.axis, fu.call_queue_df, fu.call_queues_other,
                     [i \in DOMAIN fu.others |-> fs[fu.others[i]].out.df])

DaskExecute(fs, k) == [fs[k] EXCEPT !.done = TRUE, !.out = DaskRun(fs, fs[k])]

\* The cluster runs call j unless it has run already.
DaskStep(fs, j) == IF fs[j].done THEN fs ELSE [fs EXCEPT ![j] = DaskExecute(fs, j)]

RECURSIVE DaskForceFrom(_, _, _)
DaskForceFrom(fs, j, k) == IF j > k THEN fs ELSE DaskForceFrom(DaskStep(fs, j), j + 1, k)

\* The cluster runs every pending call up to call k, oldest first (a call
\* depends on older futures only).
DaskForce(fs, k) == DaskForceFrom(fs, 1, k)

\* ------------------------------------------- PandasOnDaskFramePartition
DaskPartition(future, call_queue) == [future |-> future, call_queue |-> call_queue]

\* PandasOnDaskFramePartition.apply(func): the future of the new partition
\* is the last of the store returned.
dask_apply(fs, part, func) ==
    Submit(fs, "apply", part.future, 0, part.call_queue \o <<func>>, <<>>, <<>>)

\* ------------------------------------------------------------------ grids
\* A numpy array of partitions of shape (nrows, ncols).
Grid(nrows, ncols, cells) == [nrows |-> nrows, ncols |-> ncols, cells |-> cells]
NoGrid == Grid(0, 0, <<>>)

\* What a partition-manager call returns: the error raised (err), or the
\* labels (labels) or the grid (grid).
NoCall ==
    [op |-> "none", axis |-> 0, func |-> "", err |-> "", labels |-> <<>>,
     grid |-> NoGrid, nfutures |-> 0]

\* ------------------------------------------------------------ client calls
\* last: the call (op, with the operation arg it was given) made on partition
\* `part`, the partition `new` it returned (0: none), what it returned or
\* raised (ret), the receiver as it was before the call (pre) and the number
\* of remote calls issued before the call (ntasks).
Called(op, arg, p, new, ret) ==
    [op |-> op, arg |-> arg, part |-> p, new |-> new, ret |-> ret,
     pre |-> IF p = 0 THEN NoPart ELSE parts[p], ntasks |-> Len(tasks)]

Hist(base, ops) == [base |-> base, ops |-> ops]

\* A client thread: the method it is in (op, with its argument arg), the
\* line it is at (pc), its locals oid and call_queue, what the method
\* returned (ret) and the number of methods it has called (calls).
Idle(calls, ret) ==
    [op |-> "none", arg |-> "", pc |-> "idle", oid |-> ObjectRef(0, 0),
     call_queue |-> <<>>, ret |-> ret, calls |-> calls]
Threads == {1, 2}

\* No list object allocated.
NoHeap == [ids |-> <<>>, lists |-> <<>>]
NoThreads == [th \in Threads |-> Idle(0, NoVal)]

Init ==
    /\ tasks = <<>>
    /\ parts = <<>>
    /\ history = <<>>
    /\ last = [op |-> "none", arg |-> "", part |-> 0, new |-> 0, ret |-> NoVal,
               pre |-> NoPart, ntasks |-> 0]
    /\ futures = <<>>
    /\ left = NoGrid
    /\ right = NoGrid
    /\ mlast = NoCall
    /\ threads = NoThreads
    /\ heap = NoHeap

\* A call that returns a new partition and leaves its receiver alone.
Created(opname, arg, p, r, h) ==
    /\ Len(parts) < MaxParts
    /\ Len(r.tasks) <= MaxTasks
    /\ tasks' = r.tasks
    /\ parts' = Append(parts, r.self)
    /\ history' = Append(history, h)
    /\ last' = Called(opname, arg, p, Len(parts) + 1, NoVal)
    /\ UNCHANGED daskvars
    /\ UNCHANGED <<threads, heap>>

\* A call that mutates only its receiver.
Returned(opname, p, r) ==
    /\ Len(r.tasks) <= MaxTasks
    /\ tasks' = r.tasks
    /\ parts' = [parts EXCEPT ![p] = r.self]
    /\ last' = Called(opname, "", p, 0, r.ret)
    /\ UNCHANGED history
    /\ UNCHANGED daskvars
    /\ UNCHANGED <<threads, heap>>

Put(obj) == Created("put", "", 0, put(tasks, obj), Hist(obj, <<>>))

\* PandasOnRayFramePartition(q.oid): a partition built directly around the
\* handle of a partition with nothing queued; its caches are unknown.
Construct(q) ==
    /\ parts[q].call_queue = <<>>
    /\ Created("init", "", q,
               Result(PandasOnRayFramePartition(parts[q].oid, None, None, None, <<>>),
                      tasks, NoVal),
               history[q])

AddToApplyCalls(p, op) ==
    /\ Len(parts[p].call_queue) < MaxQueue
    /\ Created("add_to_apply_calls", op, p,
               Result(add_to_apply_calls(parts[p], op), tasks, NoVal),
               Hist(history[p].base, Append(history[p].ops, op)))

Apply(p, op) ==
    /\ Len(parts[p].call_queue) < MaxQueue
    /\ Created("apply", op, p, apply(parts[p], tasks, op),
               Hist(history[p].base, Append(history[p].ops, op)))

CopyPart(p) ==
    Created("copy", "", p, Result(copy(parts[p]), tasks, NoVal), history[p])

DrainCallQueue(p) == Returned("drain_call_queue", p, drain_call_queue(parts[p], tasks))

Get(p) == Returned("get", p, get(parts[p], tasks))

Length(p) == Returned("length", p, length(parts[p], tasks))

Width(p) == Returned("width", p, width(parts[p], tasks))

Ip(p) == Returned("ip", p, ip(parts[p], tasks))

\* A worker runs a pending remote call whose argument is resolved.
RunTask(t) ==
    /\ ~tasks[t].done
    /\ tasks[tasks[t].arg.t].done
    /\ tasks' = [tasks EXCEPT ![t] = Execute(tasks, t)]
    /\ UNCHANGED <<parts, history, last>>
    /\ UNCHANGED daskvars
    /\ UNCHANGED <<threads, heap>>

Next ==
    \/ \E obj \in Blocks : Put(obj)
    \/ \E q \in DOMAIN parts : Construct(q)
    \/ \E p \in DOMAIN parts, op \in Ops : AddToApplyCalls(p, op)
    \/ \E p \in DOMAIN parts, op \in Ops : Apply(p, op)
    \/ \E p \in DOMAIN parts : CopyPart(p)
    \/ \E p \in DOMAIN parts : DrainCallQueue(p)
    \/ \E p \in DOMAIN parts : Get(p)
    \/ \E p \in DOMAIN parts : Length(p)
    \/ \E p \in DOMAIN parts : Width(p)
    \/ \E p \in DOMAIN parts : Ip(p)
    \/ \E t \in DOMAIN tasks : RunTask(t)

Spec == Init /\ [][Next]_vars

\* ------------------------------------------- clients that write in place
\* The same partition calls, made by a client whose blocks sit in read-only
\* storage (as blocks read back from the object store do) and whose deferred
\* operations include an in-place write.
RetryBlocks == { [b EXCEPT !.ro = TRUE] : b \in Blocks }
RetryOps == {"setitem", "tail", "freeze"}

NextRetry ==
    \/ \E obj \in RetryBlocks : Put(obj)
    \/ \E p \in DOMAIN parts, op \in RetryOps : AddToApplyCalls(p, op)
    \/ \E p \in DOMAIN parts, op \in RetryOps : Apply(p, op)
    \/ \E p \in DOMAIN parts : DrainCallQueue(p)
    \/ \E p \in DOMAIN parts : Get(p)
    \/ \E p \in DOMAIN parts : Length(p)
    \/ \E p \in DOMAIN parts : Width(p)
    \/ \E t \in DOMAIN tasks : RunTask(t)

SpecRetry == Init /\ [][NextRetry]_vars

\* ------------------------------------------------- clients that mask
\* The partition calls of a client that also masks; its blocks stay frames.
MaskOps == {"T", "fail"}

Mask(p, rows, cols) ==
    /\ Len(parts[p].call_queue) < MaxQueue
    /\ Created("mask", IlocOp(rows, cols), p, mask(parts[p], tasks, rows, cols),
               Hist(history[p].base, Append(history[p].ops, IlocOp(rows, cols))))

NextMask ==
    \/ \E obj \in Blocks : Put(obj)
    \/ \E p \in DOMAIN parts, op \in MaskOps : AddToApplyCalls(p, op)
    \/ \E p \in DOMAIN parts, op \in MaskOps : Apply(p, op)
    \/ \E p \in DOMAIN parts, rows \in RowSelectors, cols \in ColSelectors : Mask(p, rows, cols)
    \/ \E p \in DOMAIN parts : CopyPart(p)
    \/ \E p \in DOMAIN parts : DrainCallQueue(p)
    \/ \E p \in DOMAIN parts : Get(p)
    \/ \E p \in DOMAIN parts : Length(p)
    \/ \E p \in DOMAIN parts : Width(p)
    \/ \E p \in DOMAIN parts : Ip(p)
    \/ \E t \in DOMAIN tasks : RunTask(t)

SpecMask == Init /\ [][NextMask]_vars

\* ------------------------------------------- call queues as list objects
\* The same partition calls with the list objects made explicit: call_queue
\* is an attribute that refers to a Python list, and two partitions may
\* refer to the same list.  heap.ids[p] is the list partition p refers to,
\* heap.lists[i] the content of list i; parts[p].call_queue is the content
\* of the list p refers to.
Synced(ps, h) == [q \in DOMAIN ps |-> [ps[q] EXCEPT !.call_queue = h.lists[h.ids[q]]]]

\* __init__ with call_queue=None (call_queue = []) or with a list built by
\* the caller (self.call_queue + [...]): the new partition refers to a new
\* list.
new_list(h, content) ==
    [ids |-> Append(h.ids, Len(h.lists) + 1), lists |-> Append(h.lists, content)]

\* __copy__: call_queue=self.call_queue, the new partition refers to the
\* list of partition p.
same_list(h, p) == [ids |-> Append(h.ids, h.ids[p]), lists |-> h.lists]

\* Mutant: the list is emptied in place.
Mutant_clear_in_place(h, p, content) ==
    [ids |-> h.ids, lists |-> [h.lists EXCEPT ![h.ids[p]] = content]]

\* drain_call_queue, line 140: self.call_queue = [] binds the attribute of
\* partition p to a new list.
rebind_queue(h, p, content) ==
    [ids |-> [h.ids EXCEPT ![p] = Len(h.lists) + 1], lists |-> Append(h.lists, content)]

HeapOps == {"T"}

\* A call that returns a new partition.
HCreated(opname, arg, p, r, h, shared) ==
    /\ Len(parts) < MaxParts
    /\ Len(r.tasks) <= MaxTasks
    /\ tasks' = r.tasks
    /\ heap' = IF shared THEN same_list(heap, p) ELSE new_list(heap, r.self.call_queue)
    /\ parts' = Synced(Append(parts, r.self), heap')
    /\ history' = Append(history, h)
    /\ last' = Called(opname, arg, p, Len(parts) + 1, NoVal)
    /\ UNCHANGED <<daskvars, threads>>

\* A call on partition p that may drain it.
HReturned(opname, p, r) ==
    /\ Len(r.tasks) <= MaxTasks
    /\ tasks' = r.tasks
    /\ heap' = IF r.self.call_queue # parts[p].call_queue
               THEN rebind_queue(heap, p, r.self.call_queue)
               ELSE heap
    /\ parts' = Synced([parts EXCEPT ![p] = r.self], heap')
    /\ last' = Called(opname, "", p, 0, r.ret)
    /\ UNCHANGED <<history, daskvars, threads>>

HPut(obj) == HCreated("put", "", 0, put(tasks, obj), Hist(obj, <<>>), FALSE)

HAddToApplyCalls(p, op) ==
    /\ Len(parts[p].call_queue) < MaxQueue
    /\ HCreated("add_to_apply_calls", op, p,
                Result(add_to_apply_calls(parts[p], op), tasks, NoVal),
                Hist(history[p].base, Append(history[p].ops, op)), FALSE)

HApply(p, op) ==
    /\ Len(parts[p].call_queue) < MaxQueue
    /\ HCreated("apply", op, p, apply(parts[p], tasks, op),
                Hist(history[p].base, Append(history[p].ops, op)), FALSE)

HMask(p, rows, cols) ==
    /\ Len(parts[p].call_queue) < MaxQueue
    /\ HCreated("mask", IlocOp(rows, cols), p, mask(parts[p], tasks, rows, cols),
                Hist(history[p].base, Append(history[p].ops, IlocOp(rows, cols))), FALSE)

HCopy(p) == HCreated("copy", "", p, Result(copy(parts[p]), tasks, NoVal), history[p], TRUE)

HDrainCallQueue(p) == HReturned("drain_call_queue", p, drain_call_queue(parts[p], tasks))

HGet(p) == HReturned("get", p, get(parts[p], tasks))

HLength(p) == HReturned("length", p, length(parts[p], tasks))

HWidth(p) == HReturned("width", p, width(parts[p], tasks))

HIp(p) == HReturned("ip", p, ip(parts[p], tasks))

NextHeap ==
    \/ \E obj \in Blocks : HPut(obj)
    \/ \E p \in DOMAIN parts, op \in HeapOps : HAddToApplyCalls(p, op)
    \/ \E p \in DOMAIN parts, op \in HeapOps : HApply(p, op)
    \/ \E p \in DOMAIN parts : HMask(p, "1:3", ":")
    \/ \E p \in DOMAIN parts : HCopy(p)
    \/ \E p \in DOMAIN parts : HDrainCallQueue(p)
    \/ \E p \in DOMAIN parts : HGet(p)
    \/ \E p \in DOMAIN parts : HLength(p)
    \/ \E p \in DOMAIN parts : HWidth(p)
    \/ \E p \in DOMAIN parts : HIp(p)
    \/ \E t \in DOMAIN tasks : RunTask(t)

SpecHeap == Init /\ [][NextHeap]_vars

\* ------------------------------------- two threads sharing one partition
\* Two client threads call drain_call_queue, get and apply on the same
\* partition object, parts[1]; the methods take no lock, so the threads
\* interleave between the statements of partition.py.  The object starts
\* with operations queued over a block that was put.
SharedQueues == { <<"tail">>, <<"tail", "T">>, <<"T">> }
ThreadOps == {"tail"}

InitThreads ==
    /\ \E obj \in Blocks, q \in SharedQueues :
          /\ tasks = ray_put(<<>>, obj)
          /\ parts = <<PandasOnRayFramePartition(ObjectRef(1, 0), None, None, None, q)>>
          /\ history = <<Hist(obj, q)>>
    /\ last = [op |-> "none", arg |-> "", part |-> 0, new |-> 0, ret |-> NoVal,
               pre |-> NoPart, ntasks |-> 0]
    /\ futures = <<>>
    /\ left = NoGrid
    /\ right = NoGrid
    /\ mlast = NoCall
    /\ threads = NoThreads
    /\ heap = NoHeap

\* The thread moves to pc; nothing else changes.
Goto(th, pc) ==
    /\ threads' = [threads EXCEPT ![th].pc = pc]
    /\ UNCHANGED <<tasks, parts, history>>

\* The method returns ret.
Return(th, ret) ==
    threads' = [threads EXCEPT ![th] = Idle(threads[th].calls, ret)]

\* A thread calls drain_call_queue(), get() or apply(op) on parts[1].
Call(th, op, arg) ==
    /\ UNCHANGED <<last, daskvars, heap>>
    /\ threads[th].pc = "idle"
    /\ threads[th].calls = 0
    /\ threads' = [threads EXCEPT ![th] =
                      [op |-> op, arg |-> arg, oid |-> ObjectRef(0, 0), call_queue |-> <<>>,
                       ret |-> NoVal, calls |-> 1,
                       pc |-> IF op = "apply" THEN "apply_oid"
                              ELSE IF op = "get" THEN "get_guard" ELSE "drain_guard"]]
    /\ UNCHANGED <<tasks, parts, history>>

\* get: if len(self.call_queue): self.drain_call_queue()
GetGuard(th) ==
    /\ UNCHANGED <<last, daskvars, heap>>
    /\ threads[th].pc = "get_guard"
    /\ Goto(th, IF parts[1].call_queue # <<>> THEN "drain_guard" ELSE "get_return")

\* drain_call_queue: if len(self.call_queue) == 0: return
DrainGuard(th) ==
    /\ UNCHANGED <<last, daskvars, heap>>
    /\ threads[th].pc = "drain_guard"
    /\ IF parts[1].call_queue # <<>> THEN Goto(th, "drain_oid")
       ELSE IF threads[th].op = "get" THEN Goto(th, "get_return")
       ELSE Return(th, NoVal) /\ UNCHANGED <<tasks, parts, history>>

\* drain_call_queue: oid = self.oid
DrainReadOid(th) ==
    /\ UNCHANGED <<last, daskvars, heap>>
    /\ threads[th].pc = "drain_oid"
    /\ threads' = [threads EXCEPT ![th].oid = parts[1].oid, ![th].pc = "drain_queue"]
    /\ UNCHANGED <<tasks, parts, history>>

\* drain_call_queue: call_queue = self.call_queue
DrainReadQueue(th) ==
    /\ UNCHANGED <<last, daskvars, heap>>
    /\ threads[th].pc = "drain_queue"
    /\ threads' = [threads EXCEPT ![th].call_queue = parts[1].call_queue,
                                  ![th].pc = "drain_call"]
    /\ UNCHANGED <<tasks, parts, history>>

\* drain_call_queue: (self.oid, self._length_cache, self._width_cache,
\* self._ip_cache) = deploy_ray_func.remote(call_queue, oid)
DrainDispatch(th) ==
    /\ UNCHANGED <<last, daskvars, heap>>
    /\ threads[th].pc = "drain_call"
    /\ tasks' = Remote(tasks, "deploy", threads[th].call_queue, threads[th].oid)
    /\ parts' = [parts EXCEPT ![1] =
                    [Deployed(Len(tasks) + 1) EXCEPT !.call_queue = parts[1].call_queue]]
    /\ threads' = [threads EXCEPT ![th].pc = "drain_clear"]
    /\ UNCHANGED history

\* drain_call_queue: self.call_queue = []
DrainClear(th) ==
    /\ UNCHANGED <<last, daskvars, heap>>
    /\ threads[th].pc = "drain_clear"
    /\ parts' = [parts EXCEPT ![1].call_queue = <<>>]
    /\ IF threads[th].op = "get"
       THEN threads' = [threads EXCEPT ![th].pc = "get_return"]
       ELSE Return(th, NoVal)
    /\ UNCHANGED <<tasks, history>>

\* get: return ray.get(self.oid)
GetReturn(th) ==
    /\ UNCHANGED <<last, daskvars, heap>>
    /\ threads[th].pc = "get_return"
    /\ tasks' = ray_get(tasks, parts[1].oid).tasks
    /\ Return(th, ray_get(tasks, parts[1].oid).val)
    /\ UNCHANGED <<parts, history>>

\* apply: oid = self.oid
ApplyReadOid(th) ==
    /\ UNCHANGED <<last, daskvars, heap>>
    /\ threads[th].pc = "apply_oid"
    /\ threads' = [threads EXCEPT ![th].oid = parts[1].oid, ![th].pc = "apply_call"]
    /\ UNCHANGED <<tasks, parts, history>>

\* apply: call_queue = self.call_queue + [(func, kwargs)], the remote call
\* and the partition returned.
ApplyDispatch(th) ==
    /\ UNCHANGED <<last, daskvars, heap>>
    /\ threads[th].pc = "apply_call"
    /\ tasks' = Remote(tasks, "deploy", Append(parts[1].call_queue, threads[th].arg),
                       threads[th].oid)
    /\ parts' = Append(parts, Deployed(Len(tasks) + 1))
    /\ history' = Append(history, Hist(history[1].base,
                                       Append(history[1].ops, threads[th].arg)))
    /\ threads' = [threads EXCEPT ![th] =
                      [Idle(1, NoVal) EXCEPT !.call_queue =
                                                Append(parts[1].call_queue, threads[th].arg),
                                            !.oid = threads[th].oid]]

NextThreads ==
    \/ \E th \in Threads :
          \/ Call(th, "drain_call_queue", "")
          \/ Call(th, "get", "")
          \/ \E op \in ThreadOps : Call(th, "apply", op)
    \/ \E th \in Threads : GetGuard(th)
    \/ \E th \in Threads : DrainGuard(th)
    \/ \E th \in Threads : DrainReadOid(th)
    \/ \E th \in Threads : DrainReadQueue(th)
    \/ \E th \in Threads : DrainDispatch(th)
    \/ \E th \in Threads : DrainClear(th)
    \/ \E th \in Threads : GetReturn(th)
    \/ \E th \in Threads : ApplyReadOid(th)
    \/ \E th \in Threads : ApplyDispatch(th)

SpecThreads == InitThreads /\ [][NextThreads]_vars

\* ------------------------------------------- PandasOnDaskFramePartitionManager
\* [idx.apply(func).future for idx in reps]: the store once every call is
\* submitted; the new futures are the last Len(reps) of it, in order.
RECURSIVE ApplyEach(_, _, _)
ApplyEach(fs, reps, func) ==
    IF reps = <<>> THEN fs
    ELSE ApplyEach(dask_apply(fs, Head(reps), func), Tail(reps), func)

\* Mutant: the first row is taken for axis 0 and the first column otherwise.
Mutant_representatives_swapped(axis, partitions) ==
    IF axis # 0
    THEN IF partitions.ncols # 0
         THEN [r \in 1..partitions.nrows |-> partitions.cells[r][1]]
         ELSE <<>>
    ELSE IF partitions.nrows # 0 THEN partitions.cells[1] ELSE <<>>

\* partitions.T[0] if len(partitions.T) else [], and partitions[0] if
\* len(partitions) else []: the partitions index_func is applied to.
Representatives(axis, partitions) ==
    IF axis = 0
    THEN IF partitions.ncols # 0
         THEN [r \in 1..partitions.nrows |-> partitions.cells[r][1]]
         ELSE <<>>
    ELSE IF partitions.nrows # 0 THEN partitions.cells[1] ELSE <<>>

\* new_idx[0].append(new_idx[1:]) if len(new_idx) else new_idx
Appended(new_idx) ==
    IF Len(new_idx) # 0
    THEN Flatten([i \in DOMAIN new_idx |-> new_idx[i].df.index])
    ELSE <<>>

\* Mutant: new_idx[0] is read without the test on len(new_idx).
Mutant_gathered_no_guard(fs, n) ==
    [futures |-> fs,
     err     |-> IF n = 0 THEN "IndexError"
                 ELSE FirstErr([i \in 1..n |-> fs[Len(fs) - n + i].out]),
     labels  |-> <<>>,
     grid    |-> NoGrid]

\* client.gather(new_idx) and the return statement: fs is the store once the
\* cluster has run the calls, n the number of futures gathered.
Gathered(fs, n) ==
    [futures |-> fs,
     err     |-> FirstErr([i \in 1..n |-> fs[Len(fs) - n + i].out]),
     labels  |-> IF FirstErr([i \in 1..n |-> fs[Len(fs) - n + i].out]) # "" THEN <<>>
                 ELSE Appended([i \in 1..n |-> fs[Len(fs) - n + i].out]),
     grid    |-> NoGrid]

\* get_indices(axis, partitions, index_func)
get_indices(fs, axis, partitions, index_func) ==
    Gathered(DaskForce(ApplyEach(fs, Representatives(axis, partitions), index_func),
                       Len(fs) + Len(Representatives(axis, partitions))),
             Len(Representatives(axis, partitions)))

\* Mutant: right's row for axis 1 and right's column for axis 0.
Mutant_aligned_swapped(axis, rt, row_idx, col_idx) ==
    IF axis # 0
    THEN IF row_idx <= rt.nrows THEN rt.cells[row_idx] ELSE <<>>
    ELSE IF col_idx <= rt.ncols THEN [i \in 1..rt.nrows |-> rt.cells[i][col_idx]] ELSE <<>>

\* The partitions of right passed along with left[row_idx][col_idx]:
\* [obj[col_idx] for obj in right] if axis else right[row_idx].
Aligned(axis, rt, row_idx, col_idx) ==
    IF axis # 0
    THEN [i \in 1..rt.nrows |-> rt.cells[i][col_idx]]
    ELSE rt.cells[row_idx]

\* Whether building those arguments raises IndexError.
OutOfRange(axis, rt, row_idx, col_idx) ==
    IF axis # 0
    THEN rt.nrows > 0 /\ col_idx > rt.ncols
    ELSE row_idx > rt.nrows

\* client.submit(deploy_func, part.future, mapper, part.call_queue,
\*               [call queues of the aligned partitions], *[their futures])
SubmitCell(fs, axis, part, others) ==
    Submit(fs, "deploy_func", part.future, axis, part.call_queue,
           [i \in DOMAIN others |-> others[i].call_queue],
           [i \in DOMAIN others |-> others[i].future])

\* The cells of left, in the order of the two nested comprehensions.
CellsOf(g) == [k \in 1..(g.nrows * g.ncols) |->
                  <<((k - 1) \div g.ncols) + 1, ((k - 1) % g.ncols) + 1>>]

\* The comprehensions, cell after cell from cell k: the store when they end,
\* and the error that ended them.
RECURSIVE SubmitCells(_, _, _, _, _)
SubmitCells(fs, k, axis, lt, rt) ==
    IF k > Len(CellsOf(lt)) THEN [futures |-> fs, err |-> ""]
    ELSE IF OutOfRange(axis, rt, CellsOf(lt)[k][1], CellsOf(lt)[k][2])
    THEN [futures |-> fs, err |-> "IndexError"]
    ELSE SubmitCells(SubmitCell(fs, axis,
                                lt.cells[CellsOf(lt)[k][1]][CellsOf(lt)[k][2]],
                                Aligned(axis, rt, CellsOf(lt)[k][1], CellsOf(lt)[k][2])),
                     k + 1, axis, lt, rt)

\* np.array([[PandasOnDaskFramePartition(future) ...] ...]): the grid of the
\* new partitions, whose futures follow the n futures that were there; an
\* array built from no rows has no columns.
ResultGrid(lt, n) ==
    Grid(lt.nrows, IF lt.nrows = 0 THEN 0 ELSE lt.ncols,
         [r \in 1..lt.nrows |->
             [c \in 1..lt.ncols |-> DaskPartition(n + (r - 1) * lt.ncols + c, <<>>)]])

broadcast_apply_return(s, lt, n) ==
    [futures |-> s.futures, err |-> s.err, labels |-> <<>>,
     grid |-> IF s.err # "" THEN NoGrid ELSE ResultGrid(lt, n)]

\* broadcast_apply(axis, apply_func, left, right)
broadcast_apply(fs, axis, lt, rt) ==
    broadcast_apply_return(SubmitCells(fs, 1, axis, lt, rt), lt, Len(fs))

\* ------------------------------------------------------- Dask: the grids
RowLabels(r) == <<3 * (r - 1), 3 * (r - 1) + 1, 3 * (r - 1) + 2>>
ColLabels(c) == <<10 * c, 10 * c + 1>>

\* The block of cell (r, c) of left, and of right.
LeftBlock(r, c) == Frame(RowLabels(r), ColLabels(c))
RightBlock(r, c) == Frame(<<50 + 2 * (r - 1), 51 + 2 * (r - 1)>>, <<70 + c>>)

\* A grid whose cell (r, c) holds future base + (r - 1) * ncols + c; the
\* cell `queued` (if any) has the operation op queued.
MakeGrid(nrows, ncols, base, queued, op) ==
    Grid(nrows, ncols,
         [r \in 1..nrows |->
             [c \in 1..ncols |->
                 DaskPartition(base + (r - 1) * ncols + c,
                               IF <<r, c>> = queued THEN <<op>> ELSE <<>>)]])

CellOf(k, ncols) == <<((k - 1) \div ncols) + 1, ((k - 1) % ncols) + 1>>

\* The blocks of both grids, scattered: those of left, then those of right.
Scattered(R, C, R2, C2) ==
    [k \in 1..(R * C + R2 * C2) |->
        IF k <= R * C
        THEN Data(LeftBlock(CellOf(k, C)[1], CellOf(k, C)[2]))
        ELSE Data(RightBlock(CellOf(k - R * C, C2)[1], CellOf(k - R * C, C2)[2]))]

\* Two grids of any shape up to MaxDim x MaxDim, zero rows or columns
\* included, each with at most one partition that has an operation queued.
InitDask ==
    /\ tasks = <<>>
    /\ parts = <<>>
    /\ history = <<>>
    /\ last = [op |-> "none", arg |-> "", part |-> 0, new |-> 0, ret |-> NoVal,
               pre |-> NoPart, ntasks |-> 0]
    /\ mlast = NoCall
    /\ threads = NoThreads
    /\ heap = NoHeap
    /\ \E R \in 0..MaxDim, C \in 0..MaxDim, R2 \in 0..MaxDim, C2 \in 0..MaxDim :
       \E lq \in ((1..R) \X (1..C)) \cup {<<0, 0>>},
          rq \in ((1..R2) \X (1..C2)) \cup {<<0, 0>>} :
          /\ futures = Scattered(R, C, R2, C2)
          /\ left = MakeGrid(R, C, 0, lq, "T")
          /\ right = MakeGrid(R2, C2, R * C, rq, "tail")

ManagerCalled(op, axis, func, r) ==
    /\ mlast.op = "none"
    /\ futures' = r.futures
    /\ mlast' = [op |-> op, axis |-> axis, func |-> func, err |-> r.err,
                 labels |-> r.labels, grid |-> r.grid, nfutures |-> Len(futures)]
    /\ UNCHANGED <<left, right>>
    /\ UNCHANGED rayvars
    /\ UNCHANGED <<threads, heap>>

GetIndices(axis, index_func) ==
    ManagerCalled("get_indices", axis, index_func,
                  get_indices(futures, axis, left, index_func))

BroadcastApply(axis) ==
    ManagerCalled("broadcast_apply", axis, "", broadcast_apply(futures, axis, left, right))

\* The cluster runs the oldest pending call.
DaskWorker(k) ==
    /\ ~futures[k].done
    /\ \A j \in 1..(k - 1) : futures[j].done
    /\ futures' = [futures EXCEPT ![k] = DaskExecute(futures, k)]
    /\ UNCHANGED <<left, right, mlast>>
    /\ UNCHANGED rayvars
    /\ UNCHANGED <<threads, heap>>

NextDask ==
    \/ \E axis \in {0, 1}, index_func \in {"index", "columns"} : GetIndices(axis, index_func)
    \/ \E axis \in {0, 1} : BroadcastApply(axis)
    \/ \E k \in DOMAIN futures : DaskWorker(k)

SpecDask == InitDask /\ [][NextDask]_vars

\* ------------------------------------------- Dask: grids with longer queues
\* The queues a partition of left, or of right, may hold: two operations
\* whose order matters, or an in-place write on a block that the operation
\* before it left over read-only storage.
LeftQueues == {<<"T", "tail">>, <<"freeze", "setitem">>}
RightQueues == {<<"tail", "T">>, <<"freeze", "setitem">>}

\* A grid whose cell (r, c) holds future base + (r - 1) * ncols + c; the
\* cell `queued` (if any) has the queue `queue`.
MakeQueuedGrid(nrows, ncols, base, queued, queue) ==
    Grid(nrows, ncols,
         [r \in 1..nrows |->
             [c \in 1..ncols |->
                 DaskPartition(base + (r - 1) * ncols + c,
                               IF <<r, c>> = queued THEN queue ELSE <<>>)]])

InitQueues ==
    /\ tasks = <<>>
    /\ parts = <<>>
    /\ history = <<>>
    /\ last = [op |-> "none", arg |-> "", part |-> 0, new |-> 0, ret |-> NoVal,
               pre |-> NoPart, ntasks |-> 0]
    /\ mlast = NoCall
    /\ threads = NoThreads
    /\ heap = NoHeap
    /\ \E R \in 0..MaxDim, C \in 0..MaxDim, R2 \in 0..MaxDim, C2 \in 0..MaxDim :
       \E lq \in ((1..R) \X (1..C)) \cup {<<0, 0>>},
          rq \in ((1..R2) \X (1..C2)) \cup {<<0, 0>>},
          lops \in LeftQueues, rops \in RightQueues :
          /\ futures = Scattered(R, C, R2, C2)
          /\ left = MakeQueuedGrid(R, C, 0, lq, lops)
          /\ right = MakeQueuedGrid(R2, C2, R * C, rq, rops)

NextQueues ==
    \/ \E axis \in {0, 1} : BroadcastApply(axis)
    \/ \E k \in DOMAIN futures : DaskWorker(k)

SpecQueues == InitQueues /\ [][NextQueues]_vars

\* =================================================================== claims
\* f_n(... f_2(f_1(B))): the operations applied one after the other, each
\* exactly once, with no retry; an operation that raises ends the chain.
RECURSIVE Compose(_, _)
Compose(ops, r) ==
    IF ops = <<>> \/ r.err # "" THEN r ELSE Compose(Tail(ops), Func(Head(ops), r.df))

\* The block partition p stands for: the operations appended to it so far,
\* applied in append order to the block it was built from.
Logical(p) == Compose(history[p].ops, Ok(history[p].base))

\* The remote calls issued by the last client call.
Issued == Len(tasks) - last.ntasks

\* Partition p is the one put() returned for its block.
FromPut(p) ==
    /\ tasks[parts[p].oid.t].fn = "put"
    /\ \A q \in 1..(p - 1) : parts[q].oid # parts[p].oid

\* C1: get() on a partition built from block B by appending the pure
\* operations f1..fn (by add_to_apply_calls or apply, with any drains in
\* between) returns fn(...f2(f1(B))): every operation applied once, in
\* append order.
C1_MaterializeInAppendOrder ==
    (last.op = "get" /\ Logical(last.part).err = "")
        => /\ last.ret.err = ""
           /\ last.ret.df = Logical(last.part).df

\* Witness of C1: get() returned T(tail(B)) for a partition whose two
\* operations were dispatched in two separate remote calls.
C1_Witness ==
    /\ last.op = "get"
    /\ history[last.part].ops = <<"tail", "T">>
    /\ last.ret.err = ""
    /\ last.ret.df = Frame(<<7, 8>>, <<1, 2>>)
    /\ tasks[parts[last.part].oid.t].queue = <<"T">>
    /\ tasks[tasks[parts[last.part].oid.t].arg.t].queue = <<"tail">>

\* C2: drain_call_queue() on a partition with an empty call queue issues no
\* remote call and leaves oid, the three caches and the call queue as they
\* were.
C2_DrainEmptyIsNoOp ==
    (last.op = "drain_call_queue" /\ last.pre.call_queue = <<>>)
        => /\ Issued = 0
           /\ parts[last.part] = last.pre

\* Witness of C2: a second drain right after a drain that dispatched.
C2_Witness ==
    /\ last.op = "drain_call_queue"
    /\ last.pre.call_queue = <<>>
    /\ tasks[last.pre.oid.t].fn = "deploy"
    /\ last.pre.ip_cache.k = "ref"

\* C3: drain_call_queue() on a partition with a non-empty call queue issues
\* exactly one deploy_ray_func call, on the partition's handle with its whole
\* queue; afterwards oid and the length, width and ip caches are the four
\* outputs of that call, and the call queue is empty.
C3_DrainDispatchesOnce ==
    (last.op = "drain_call_queue" /\ last.pre.call_queue # <<>>)
        => /\ Issued = 1
           /\ tasks[Len(tasks)].fn = "deploy"
           /\ tasks[Len(tasks)].arg = last.pre.oid
           /\ tasks[Len(tasks)].queue = last.pre.call_queue
           /\ parts[last.part].oid = ObjectRef(Len(tasks), 0)
           /\ parts[last.part].length_cache = RefC(Len(tasks), 1)
           /\ parts[last.part].width_cache = RefC(Len(tasks), 2)
           /\ parts[last.part].ip_cache = RefC(Len(tasks), 3)
           /\ parts[last.part].call_queue = <<>>

\* Witness of C3: a drain of a queue of two operations.
C3_Witness ==
    /\ last.op = "drain_call_queue"
    /\ Len(last.pre.call_queue) = 2
    /\ parts[last.part].call_queue = <<>>

\* C4: add_to_apply_calls(op) returns a new partition with the receiver's
\* handle and the receiver's queue with op appended last; it issues no remote
\* call (and leaves the receiver as it was).
C4_QueueAppendsLast ==
    last.op = "add_to_apply_calls"
        => /\ parts[last.new].oid = last.pre.oid
           /\ parts[last.new].call_queue = Append(last.pre.call_queue, last.arg)
           /\ last.new # last.part
           /\ parts[last.part] = last.pre
           /\ Issued = 0

\* Witness of C4: an operation queued behind a different one.
C4_Witness ==
    /\ last.op = "add_to_apply_calls"
    /\ last.pre.call_queue = <<"tail">>
    /\ parts[last.new].call_queue = <<"tail", "T">>

\* C5: apply(op) is add_to_apply_calls(op) followed at once by
\* drain_call_queue() on the new partition: it issues exactly one
\* deploy_ray_func call, on the receiver's handle with the receiver's queue
\* plus op, waits for no result (no remote call is run by the step and the
\* new one is pending), and returns a partition whose oid and caches are the
\* four pending outputs of that call and whose call queue is empty.
C5_ApplyIsQueueThenDrain ==
    [][ (last'.op = "apply" /\ Len(parts') = Len(parts) + 1)
          => /\ tasks' = drain_call_queue(add_to_apply_calls(parts[last'.part], last'.arg),
                                          tasks).tasks
             /\ parts' = Append(parts,
                    drain_call_queue(add_to_apply_calls(parts[last'.part], last'.arg),
                                     tasks).self)
             /\ Len(tasks') = Len(tasks) + 1
             /\ SubSeq(tasks', 1, Len(tasks)) = tasks
             /\ ~tasks'[Len(tasks')].done
             /\ tasks'[Len(tasks')].fn = "deploy"
             /\ tasks'[Len(tasks')].arg = parts[last'.part].oid
             /\ tasks'[Len(tasks')].queue = Append(parts[last'.part].call_queue, last'.arg)
             /\ parts'[Len(parts')] = Deployed(Len(tasks')) ]_vars

\* Witness of C5: apply on a partition with a queued operation has returned
\* and its remote call has not run yet.
C5_Witness ==
    /\ last.op = "apply"
    /\ last.pre.call_queue = <<"tail">>
    /\ last.arg = "T"
    /\ parts[last.new].call_queue = <<>>
    /\ ~tasks[parts[last.new].oid.t].done

\* C6: put(v) returns a partition with an empty call queue and resolved
\* integer length and width equal to v's row and column counts; get() on it
\* returns v; length() and width() on it return those counts and issue no
\* remote call.
C6_PutRoundTrip ==
    /\ last.op = "put"
          => /\ parts[last.new].call_queue = <<>>
             /\ parts[last.new].length_cache = IntC(Len(history[last.new].base.index))
             /\ parts[last.new].width_cache = IntC(Len(history[last.new].base.columns))
    /\ (last.op = "get" /\ FromPut(last.part))
          => /\ last.ret.err = ""
             /\ last.ret.df = history[last.part].base
    /\ (last.op = "length" /\ FromPut(last.part))
          => /\ last.ret = Val("", NoDf, Len(history[last.part].base.index))
             /\ Issued = 0
    /\ (last.op = "width" /\ FromPut(last.part))
          => /\ last.ret = Val("", NoDf, Len(history[last.part].base.columns))
             /\ Issued = 0

\* Witness of C6: width() has returned on the partition put() returned.
C6_Witness ==
    /\ last.op = "width"
    /\ FromPut(last.part)
    /\ last.ret.n = 2

\* The cache length() / width() reads.
CacheOf(part, op) == IF op = "length" THEN part.length_cache ELSE part.width_cache

\* C7: when length() or width() finds its cache None, it issues exactly one
\* remote call on the partition's handle (get_index_and_columns when the call
\* queue is empty, the drain's deploy_ray_func otherwise) and both caches are
\* outputs of that one call; the values they resolve to are the row and
\* column counts of the block the partition stands for.  When the cache is
\* not None the call issues no remote call, so length() then width() on a
\* partition with unknown caches and an empty queue issue one call in total.
C7_JointResolution ==
    /\ (last.op \in {"length", "width"} /\ CacheOf(last.pre, last.op).k = "none")
          => /\ Issued = 1
             /\ tasks[Len(tasks)].arg = last.pre.oid
             /\ tasks[Len(tasks)].done
             /\ IF last.pre.call_queue = <<>>
                THEN /\ tasks[Len(tasks)].fn = "getidx"
                     /\ parts[last.part].length_cache
                            \in {RefC(Len(tasks), 0), IntC(tasks[Len(tasks)].out.n1)}
                     /\ parts[last.part].width_cache
                            \in {RefC(Len(tasks), 1), IntC(tasks[Len(tasks)].out.n2)}
                ELSE /\ tasks[Len(tasks)].fn = "deploy"
                     /\ tasks[Len(tasks)].queue = last.pre.call_queue
                     /\ parts[last.part].length_cache
                            \in {RefC(Len(tasks), 1), IntC(tasks[Len(tasks)].out.n1)}
                     /\ parts[last.part].width_cache
                            \in {RefC(Len(tasks), 2), IntC(tasks[Len(tasks)].out.n2)}
             /\ last.ret.err = ""
                   => /\ Logical(last.part).err = ""
                      /\ tasks[Len(tasks)].out.n1 = Len(Logical(last.part).df.index)
                      /\ tasks[Len(tasks)].out.n2 = Len(Logical(last.part).df.columns)
                      /\ CacheOf(parts[last.part], last.op) = IntC(last.ret.n)
                      /\ last.ret.n = IF last.op = "length"
                                      THEN Len(Logical(last.part).df.index)
                                      ELSE Len(Logical(last.part).df.columns)
             /\ (Logical(last.part).err = "" /\ Logical(last.part).df.kind = "frame")
                   => last.ret.err = ""
    /\ (last.op \in {"length", "width"} /\ CacheOf(last.pre, last.op).k # "none")
          => Issued = 0

\* Witness of C7: width() right after length() on a partition built around a
\* handle with unknown caches: the width comes from the introspection call
\* length() issued.
C7_Witness ==
    /\ last.op = "width"
    /\ last.pre.length_cache = IntC(3)
    /\ last.pre.width_cache.k = "ref"
    /\ tasks[last.pre.width_cache.t].fn = "getidx"
    /\ last.ret = Val("", NoDf, 2)
    /\ Len(tasks) = 2

\* The block a partition of a grid stands for once func is applied to it:
\* its queue, then func, applied to the block of its future.
Applied(part, func) == Compose(part.call_queue \o <<func>>, futures[part.future].out)

\* The first column of the grid, top to bottom, and its first row, left to
\* right.
FirstColumn(g) == [r \in 1..g.nrows |-> g.cells[r][1]]
FirstRow(g) == g.cells[1]

\* The futures submitted by the last partition-manager call.
Submitted == Len(futures) - mlast.nfutures

\* C8: get_indices on a grid with rows and columns returns the labels given
\* by index_func for one partition per row, taken from the first column
\* (axis 0), or one per column, taken from the first row (axis 1),
\* concatenated in grid order; index_func is applied once per representative,
\* behind that partition's own queue.
C8_GetIndicesInGridOrder ==
    (mlast.op = "get_indices" /\ left.nrows > 0 /\ left.ncols > 0)
        => LET reps == IF mlast.axis = 0 THEN FirstColumn(left) ELSE FirstRow(left)
           IN  /\ Submitted = Len(reps)
               /\ \A i \in DOMAIN reps :
                     /\ futures[mlast.nfutures + i].fn = "apply"
                     /\ futures[mlast.nfutures + i].df = reps[i].future
                     /\ futures[mlast.nfutures + i].call_queue_df
                            = reps[i].call_queue \o <<mlast.func>>
               /\ (\A i \in DOMAIN reps : Applied(reps[i], mlast.func).err = "")
                     => /\ mlast.err = ""
                        /\ mlast.labels
                             = Flatten([i \in DOMAIN reps |->
                                           Applied(reps[i], mlast.func).df.index])

\* Witness of C8: the row labels of a 2x1 grid whose blocks carry [0, 1, 2]
\* and [3, 4, 5].
C8_Witness ==
    /\ mlast.op = "get_indices"
    /\ mlast.axis = 0
    /\ mlast.func = "index"
    /\ left.nrows = 2
    /\ left.ncols = 1
    /\ \A r \in 1..2 : left.cells[r][1].call_queue = <<>>
    /\ mlast.labels = <<0, 1, 2, 3, 4, 5>>

\* C9: get_indices on a grid with no rows (axis 0) or no columns (axis 1)
\* returns the empty sequence, raises nothing and submits nothing.
C9_GetIndicesEmptyGrid ==
    (/\ mlast.op = "get_indices"
     /\ \/ mlast.axis = 0 /\ left.nrows = 0
        \/ mlast.axis = 1 /\ left.ncols = 0)
        => /\ mlast.err = ""
           /\ mlast.labels = <<>>
           /\ Submitted = 0
           /\ \A k \in DOMAIN futures : futures[k].fn = "data"

\* Witness of C9: axis 0 on a grid of shape (0, 2), whose transpose is not
\* empty.
C9_Witness ==
    /\ mlast.op = "get_indices"
    /\ mlast.axis = 0
    /\ left.nrows = 0
    /\ left.ncols = 2
    /\ mlast.labels = <<>>
    /\ mlast.err = ""

\* Row r and column c of a grid, as the futures of their partitions; empty
\* when the grid has no such row or column.
RowOf(g, r) ==
    IF r \in 1..g.nrows THEN [j \in 1..g.ncols |-> g.cells[r][j]] ELSE <<>>
ColumnOf(g, c) ==
    IF c \in 1..g.ncols THEN [i \in 1..g.nrows |-> g.cells[i][c]] ELSE <<>>

\* The k-th call the last broadcast_apply submitted is the one for the k-th
\* cell of left, and the partitions of right it combines with that cell are
\* `others`.
CombinedWith(k, others) ==
    /\ futures[mlast.nfutures + k].fn = "deploy_func"
    /\ futures[mlast.nfutures + k].df
           = left.cells[CellOf(k, left.ncols)[1]][CellOf(k, left.ncols)[2]].future
    /\ futures[mlast.nfutures + k].others = [i \in DOMAIN others |-> others[i].future]
    /\ futures[mlast.nfutures + k].call_queues_other
           = [i \in DOMAIN others |-> others[i].call_queue]

\* C10 as stated: the partitions of right combined with left[r][c] are
\* right's row r (all columns, in column order) when axis = 1 and right's
\* column c (all rows, in row order) when axis = 0.
C10_AlignedAsStated ==
    mlast.op = "broadcast_apply"
        => \A k \in 1..Submitted :
              CombinedWith(k, IF mlast.axis = 1
                              THEN RowOf(right, CellOf(k, left.ncols)[1])
                              ELSE ColumnOf(right, CellOf(k, left.ncols)[2]))

\* C10, amended: the partitions of right combined with left[r][c] are
\* right's column c (all rows, in row order) when axis = 1 and right's row r
\* (all columns, in column order) when axis = 0.
C10_AlignedAmended ==
    mlast.op = "broadcast_apply"
        => \A k \in 1..Submitted :
              CombinedWith(k, IF mlast.axis = 1
                              THEN ColumnOf(right, CellOf(k, left.ncols)[2])
                              ELSE RowOf(right, CellOf(k, left.ncols)[1]))

\* Witness of C10: axis 1 on two 2x2 grids; left[1][2] is combined with
\* right[1][2] and right[2][2].
C10_Witness ==
    /\ mlast.op = "broadcast_apply"
    /\ mlast.axis = 1
    /\ mlast.err = ""
    /\ left.nrows = 2 /\ left.ncols = 2
    /\ right.nrows = 2 /\ right.ncols = 2
    /\ Submitted = 4
    /\ futures[mlast.nfutures + 2].df = left.cells[1][2].future
    /\ futures[mlast.nfutures + 2].others
           = <<right.cells[1][2].future, right.cells[2][2].future>>

\* The result grid of the last broadcast_apply has the shape of left, and
\* its cell (r, c) is a new partition with an empty queue over the future of
\* the one call made for left[r][c].
OneCallPerCell ==
    /\ mlast.err = ""
    /\ mlast.grid.nrows = left.nrows
    /\ mlast.grid.ncols = left.ncols
    /\ Submitted = left.nrows * left.ncols
    /\ \A r \in 1..left.nrows, c \in 1..left.ncols :
          /\ mlast.grid.cells[r][c].call_queue = <<>>
          /\ mlast.grid.cells[r][c].future = mlast.nfutures + (r - 1) * left.ncols + c
          /\ futures[mlast.grid.cells[r][c].future].fn = "deploy_func"
          /\ futures[mlast.grid.cells[r][c].future].df = left.cells[r][c].future

\* C11 as stated: broadcast_apply on a left grid of shape RxC, with a right
\* grid that matches it (here: in both dimensions, so under every reading of
\* the broadcast axis), returns a grid of shape RxC of new partitions with
\* empty queues, one remote call per cell of left.
C11_ShapePreserved ==
    (/\ mlast.op = "broadcast_apply"
     /\ right.nrows = left.nrows
     /\ right.ncols = left.ncols)
        => OneCallPerCell

\* What does hold: the same for a left grid with at least one row.
C11_ShapePreservedNonEmpty ==
    (/\ mlast.op = "broadcast_apply"
     /\ right.nrows = left.nrows
     /\ right.ncols = left.ncols
     /\ left.nrows > 0)
        => OneCallPerCell

\* The failing case of C11: a left grid of shape (0, 2); the array returned
\* has no second dimension of size 2.
C11_Witness ==
    /\ mlast.op = "broadcast_apply"
    /\ left.nrows = 0 /\ left.ncols = 2
    /\ right.nrows = 0 /\ right.ncols = 2
    /\ mlast.err = ""
    /\ mlast.grid.nrows = 0
    /\ mlast.grid.ncols = 0

\* C12 as stated: when right does not match left (here: in neither
\* dimension, so under every reading of the broadcast axis), broadcast_apply
\* raises, returns no grid and has issued no remote call.
C12_MismatchRaisesFirst ==
    (/\ mlast.op = "broadcast_apply"
     /\ right.nrows # left.nrows
     /\ right.ncols # left.ncols)
        => /\ mlast.err # ""
           /\ mlast.grid = NoGrid
           /\ Submitted = 0

\* One failing case of C12: right (1x1) smaller than left (2x2), axis 0; the
\* IndexError comes once the two calls of the first row are submitted.
C12_Witness ==
    /\ mlast.op = "broadcast_apply"
    /\ mlast.axis = 0
    /\ left.nrows = 2 /\ left.ncols = 2
    /\ right.nrows = 1 /\ right.ncols = 1
    /\ mlast.err = "IndexError"
    /\ Submitted = 2

\* The other failing case of C12: right (2x2) larger than left (1x1); no
\* error at all.
C12_LargerAccepted ==
    /\ mlast.op = "broadcast_apply"
    /\ left.nrows = 1 /\ left.ncols = 1
    /\ right.nrows = 2 /\ right.ncols = 2
    /\ mlast.err = ""
    /\ Submitted = 1

\* The outcome of queued operations had no storage been read-only: the
\* in-place write goes through and leaves a writable block.
RECURSIVE Unhindered(_, _)
Unhindered(ops, r) ==
    IF ops = <<>> \/ r.err # "" THEN r
    ELSE Unhindered(Tail(ops),
                    IF Head(ops) = "setitem"
                    THEN Ok([r.df EXCEPT !.index = [i \in DOMAIN r.df.index |-> 9],
                                         !.ro = FALSE])
                    ELSE Func(Head(ops), r.df))

Expected(p) == Unhindered(history[p].ops, Ok(history[p].base))

\* C13: an operation that raises ValueError on its first attempt, at any
\* position of a dispatched queue, is retried on a copy of the block
\* accumulated so far and the dispatch goes on from the retry's result: no
\* deploy_ray_func call fails, get() returns the block the operations yield
\* without the error, and length() and width() return its counts.
C13_RetryAtEveryPosition ==
    /\ \A t \in DOMAIN tasks : tasks[t].done => tasks[t].out.err = ""
    /\ last.op \in {"get", "length", "width"} => last.ret.err = ""
    /\ last.op = "get" => last.ret.df = Expected(last.part).df
    /\ last.op = "length" => last.ret.n = Len(Expected(last.part).df.index)
    /\ last.op = "width" => last.ret.n = Len(Expected(last.part).df.columns)

\* Witness of C13: the queue <<setitem, tail>> dispatched as one call on a
\* read-only block; setitem, not the last operation, raises on its first
\* attempt, and get() returns the written block without its first row.
C13_Witness ==
    /\ last.op = "get"
    /\ last.ret.err = ""
    /\ history[last.part].ops = <<"setitem", "tail">>
    /\ history[last.part].base.ro
    /\ Func("setitem", history[last.part].base).err = "ValueError"
    /\ tasks[parts[last.part].oid.t].queue = <<"setitem", "tail">>
    /\ last.ret.df.index = <<9, 9>>

\* C14: a deferred operation that fails remotely with an error that is not
\* retried does not make apply() or drain_call_queue() raise, and the
\* partition apply() returns is an ordinary pending one; get(), length(),
\* width() and ip() on a partition whose operations fail raise and return no
\* value, and get() raises only then.
C14_LazyFailure ==
    /\ last.op \in {"apply", "add_to_apply_calls", "copy", "drain_call_queue"}
          => last.ret = NoVal
    /\ last.op = "apply" => parts[last.new] = Deployed(last.ntasks + 1)
    /\ (last.op \in {"get", "length", "width", "ip"} /\ Logical(last.part).err # "")
          => /\ last.ret.err # ""
             /\ last.ret.df = NoDf
             /\ last.ret.n = 0
    /\ (last.op = "get" /\ Logical(last.part).err = "") => last.ret.err = ""

\* Witness of C14: apply() of a failing operation returned a partition;
\* length() on it raises the operation's error.
C14_Witness ==
    /\ last.op = "length"
    /\ history[last.part].ops = <<"fail">>
    /\ tasks[parts[last.part].oid.t].fn = "deploy"
    /\ tasks[parts[last.part].oid.t].queue = <<"fail">>
    /\ last.pre.length_cache.k = "ref"
    /\ last.ret.err = "RuntimeError"

\* The operations applied to the put block to obtain the block of remote
\* call t, in order.
RECURSIVE ChainOps(_)
ChainOps(t) ==
    IF t = 0 \/ tasks[t].fn # "deploy" THEN <<>>
    ELSE ChainOps(tasks[t].arg.t) \o tasks[t].queue

\* A thread in drain_call_queue holds, in its locals, a handle that a drain
\* produced together with the non-empty queue that drain dispatched.
ObservesNewHandleOldQueue(th) ==
    /\ threads[th].pc = "drain_call"
    /\ tasks[threads[th].oid.t].fn = "deploy"
    /\ threads[th].call_queue # <<>>

\* C15 as stated: whatever the interleaving of two threads calling
\* drain_call_queue, get and apply on one partition object, no thread reads
\* the handle a drain has produced together with the queue that drain
\* dispatched, no remote call applies the queued operations twice, and get()
\* returns the block with the operations applied once.
C15_DrainAtomic ==
    /\ \A th \in Threads : ~ObservesNewHandleOldQueue(th)
    /\ \A t \in DOMAIN tasks :
          Len(ChainOps(t)) >= 2 * Len(history[1].ops)
              => SubSeq(ChainOps(t), 1, 2 * Len(history[1].ops))
                     # history[1].ops \o history[1].ops
    /\ \A th \in Threads :
          (threads[th].pc = "idle" /\ threads[th].ret.df # NoDf)
              => threads[th].ret.df = Logical(1).df

\* The failing case of C15: the queue is <<tail>> over the rows 0, 1, 2; a
\* get() returns the block with tail applied twice.
C15_Witness ==
    /\ history[1].ops = <<"tail">>
    /\ \E th \in Threads :
          /\ threads[th].pc = "idle"
          /\ threads[th].calls = 1
          /\ threads[th].ret.err = ""
          /\ threads[th].ret.df.index = <<2>>
    /\ ChainOps(parts[1].oid.t) = <<"tail", "tail">>

\* The integer a known cache stands for, once the call behind it has run.
CacheValue(c) == IF c.k = "int" THEN c.v ELSE IntOut(tasks[c.t], c.i)

\* The cache mask gives the new partition for a slice sel over a parent
\* whose cache is known: the sliced length of the parent's integer, or a
\* reference to one compute_sliced_len call on the parent's reference.
SlicedFrom(new, old, sel) ==
    IF old.k = "int" THEN new = IntC(compute_sliced_len(sel, old.v))
    ELSE /\ new.k = "ref"
         /\ new.t > last.ntasks
         /\ tasks[new.t].fn = "sliced"
         /\ tasks[new.t].queue = <<sel>>
         /\ tasks[new.t].arg = CacheRef(old)

\* A length() or width() call on a partition with a non-empty queue and the
\* cache in question known returned that cache's value, which is the true
\* count of the masked block, and left queue and handle alone without any
\* remote call.
ResolvedFromCache(cache, count) ==
    (last.pre.call_queue # <<>> /\ cache.k # "none" /\ last.ret.err = "")
        => /\ last.ret.n = CacheValue(cache)
           /\ parts[last.part].call_queue = last.pre.call_queue
           /\ parts[last.part].oid = last.pre.oid
           /\ Issued = 0
           /\ Logical(last.part).err = "" => last.ret.n = count

\* C16: mask with a row slice on a partition whose length is known (an
\* integer or a reference) returns a partition over the same handle, with
\* the selection queued and a length cache derived from the parent's by the
\* sliced-length computation; nothing is dispatched but that computation,
\* and length() on the new partition returns the sliced length without
\* draining its queue.  The same holds for a column slice and width.
C16_MaskSlicedLength ==
    /\ last.op = "mask"
          => /\ parts[last.new].oid = last.pre.oid
             /\ parts[last.new].call_queue = Append(last.pre.call_queue, last.arg)
             /\ parts[last.part] = last.pre
             /\ \A t \in (last.ntasks + 1)..Len(tasks) : tasks[t].fn = "sliced"
             /\ (IsSlice(RowsOf(last.arg)) /\ last.pre.length_cache.k # "none")
                   => SlicedFrom(parts[last.new].length_cache, last.pre.length_cache,
                                 RowsOf(last.arg))
             /\ (IsSlice(ColsFor(last.arg)) /\ last.pre.width_cache.k # "none")
                   => SlicedFrom(parts[last.new].width_cache, last.pre.width_cache,
                                 ColsFor(last.arg))
    /\ last.op = "length"
          => ResolvedFromCache(last.pre.length_cache, Len(Logical(last.part).df.index))
    /\ last.op = "width"
          => ResolvedFromCache(last.pre.width_cache, Len(Logical(last.part).df.columns))

\* Witness of C16: the rows 1:3 of a transposed block (2 rows, length still
\* a reference); length() returns 1 through the sliced-length call, the
\* selection is still queued and no call was dispatched for it.
C16_Witness ==
    /\ last.op = "length"
    /\ history[last.part].ops = <<"T", "iloc[1:3,:]">>
    /\ last.pre.length_cache.k = "ref"
    /\ tasks[last.pre.length_cache.t].fn = "sliced"
    /\ tasks[tasks[last.pre.length_cache.t].arg.t].fn = "deploy"
    /\ last.ret.err = ""
    /\ last.ret.n = 1
    /\ parts[last.part].call_queue = <<"iloc[1:3,:]">>
    /\ Len(tasks) = 3

\* C17: a call on partition P changes no other partition: only P itself
\* can change, and only by drain_call_queue, get, length, width or ip; this
\* includes the partitions that share P's handle and the copies that refer
\* to P's list.  copy() issues no remote call and returns a partition with
\* P's handle, queue and caches; a copy taken before P was drained keeps its
\* queue and still materializes to the same block.
C17_NoCrossMutation ==
    /\ [][\A q \in DOMAIN parts :
             parts'[q] # parts[q]
                 => /\ q = last'.part
                    /\ last'.op \in {"drain_call_queue", "get", "length", "width", "ip"}]_vars
    /\ [](last.op = "copy"
             => /\ Issued = 0
                /\ parts[last.new] = last.pre
                /\ parts[last.part] = last.pre)
    /\ []((last.op = "get" /\ Logical(last.part).err = "")
             => last.ret.df = Logical(last.part).df)

\* Witness of C17: P was drained while a copy of it refers to the list P
\* referred to (a drain made one list and there are no more lists than
\* partitions, so P and q shared one); the copy still has the queue.
C17_Witness ==
    /\ last.op = "drain_call_queue"
    /\ last.pre.call_queue # <<>>
    /\ parts[last.part].call_queue = <<>>
    /\ \E q \in DOMAIN parts :
          /\ q # last.part
          /\ parts[q] = last.pre
          /\ heap.ids[q] # heap.ids[last.part]
          /\ Len(heap.lists) <= Len(parts)

\* The last call drained the receiver: one deploy_ray_func call on the
\* receiver's former handle and queue, the queue now empty and the handle
\* the call's first output; what the call returned is output i of that call.
DrainYields(i) ==
    /\ Issued = 1
    /\ tasks[Len(tasks)].fn = "deploy"
    /\ tasks[Len(tasks)].arg = last.pre.oid
    /\ tasks[Len(tasks)].queue = last.pre.call_queue
    /\ parts[last.part].call_queue = <<>>
    /\ parts[last.part].oid = ObjectRef(Len(tasks), 0)
    /\ last.ret.err = tasks[Len(tasks)].out.err
    /\ last.ret.err = "" => last.ret.n = Output(tasks[Len(tasks)], i).n

\* What the last call returned describes the block after the queue.
DescribesPostQueue ==
    (last.ret.err = "" /\ Logical(last.part).err = "")
        => last.ret.n = CASE last.op = "length" -> Len(Logical(last.part).df.index)
                          [] last.op = "width" -> Len(Logical(last.part).df.columns)
                          [] OTHER -> tasks[parts[last.part].oid.t].node

\* The cache the last call is about, before the call.
CacheBefore ==
    CASE last.op = "length" -> last.pre.length_cache
      [] last.op = "width" -> last.pre.width_cache
      [] OTHER -> last.pre.ip_cache

OutputOf == CASE last.op = "length" -> 1 [] last.op = "width" -> 2 [] OTHER -> 3

\* The last call returned the value of the cache it found and left the
\* receiver's queue and handle alone, with no deploy_ray_func call.
YieldsCached ==
    /\ Issued = 0
    /\ parts[last.part].call_queue = last.pre.call_queue
    /\ parts[last.part].oid = last.pre.oid
    /\ last.ret.err = "" => last.ret.n = CacheValue(CacheBefore)

\* C18 as stated: length(), width() and ip() on a partition with a non-empty
\* queue always drain it first and return what that drain yields, also when
\* the cache was already known.
C18_AlwaysDrainsFirst ==
    (last.op \in {"length", "width", "ip"} /\ last.pre.call_queue # <<>>)
        => DrainYields(OutputOf) /\ DescribesPostQueue

\* C18 amended: length(), width() and ip() on a partition with a non-empty
\* queue drain it first and return what that drain yields when the cache in
\* question is unknown; when that cache is already known (a partition made
\* by mask, or a copy of one) they return the cached value and leave the
\* queue as it is.  In both cases the value describes the block after the
\* queue.
C18_DrainsWhenUnknown ==
    (last.op \in {"length", "width", "ip"} /\ last.pre.call_queue # <<>>)
        => /\ IF CacheBefore.k = "none" THEN DrainYields(OutputOf) ELSE YieldsCached
           /\ DescribesPostQueue

\* Witness of C18: width() on a partition with two queued operations and no
\* width cache drained it and returned the width of the block after both.
C18_Witness ==
    /\ last.op = "width"
    /\ Len(last.pre.call_queue) = 2
    /\ last.pre.width_cache.k = "none"
    /\ parts[last.part].call_queue = <<>>
    /\ last.ret.err = ""
    /\ last.ret.n = Len(Logical(last.part).df.columns)

\* Second case of C18: length() on a copy or mask product with a queue and a
\* known length left the queue in place.
C18_CachedWitness ==
    /\ last.op = "length"
    /\ last.pre.call_queue # <<>>
    /\ last.pre.length_cache.k = "int"
    /\ parts[last.part].call_queue = last.pre.call_queue
    /\ last.ret.err = ""

\* The block a Dask partition stands for: its queue applied, in order, to
\* the block behind its future.
PostQueue(part) == Compose(part.call_queue, futures[part.future].out)

\* The partitions of right that go with cell (r, c) of left.
AlignedWith(axis, r, c) == IF axis = 1 THEN ColumnOf(right, c) ELSE RowOf(right, r)

\* Blocks joined one after the other along `along`.
Joined(blocks, along) ==
    IF along = 0
    THEN Frame(Flatten([i \in DOMAIN blocks |-> blocks[i].index]),
               Union([i \in DOMAIN blocks |-> blocks[i].columns]))
    ELSE Frame(Union([i \in DOMAIN blocks |-> blocks[i].index]),
               Flatten([i \in DOMAIN blocks |-> blocks[i].columns]))

\* What the call for cell (r, c) yields when no queued operation raises.
CellResult(part, others, axis) ==
    apply_func(PostQueue(part).df,
               Ok(Joined([i \in DOMAIN others |-> PostQueue(others[i]).df], 1 - axis)))

NoneRaises(part, others) ==
    /\ PostQueue(part).err = ""
    /\ \A i \in DOMAIN others : PostQueue(others[i]).err = ""

\* The call for the k-th cell of left has run and yields what the claim says.
CellAsClaimed(k, part, others) ==
    /\ futures[mlast.nfutures + k].fn = "deploy_func"
    /\ (futures[mlast.nfutures + k].done /\ others # <<>> /\ NoneRaises(part, others))
          => futures[mlast.nfutures + k].out = CellResult(part, others, mlast.axis)

\* C19: broadcast_apply submits one call per cell of left; the call applies
\* the cell's queue in order to the cell's block and the queue of each
\* aligned partition of right in order to that partition's own block, joins
\* the resulting right blocks in grid order along the axis orthogonal to
\* axis and gives the cell's block and the joined block to the function.
\* The call changes no partition of left or right and no block.
C19_OneCallPerCell ==
    /\ []((mlast.op = "broadcast_apply" /\ mlast.err = "")
            => /\ Submitted = left.nrows * left.ncols
               /\ \A k \in 1..Submitted :
                     CellAsClaimed(k,
                        left.cells[CellOf(k, left.ncols)[1]][CellOf(k, left.ncols)[2]],
                        AlignedWith(mlast.axis, CellOf(k, left.ncols)[1],
                                    CellOf(k, left.ncols)[2])))
    /\ [][/\ left' = left
          /\ right' = right
          /\ SubSeq(futures', 1, mlast'.nfutures) = SubSeq(futures, 1, mlast'.nfutures)]_vars

\* Witness of C19: axis 1 on a left cell with the queue <<T, tail>> and two
\* aligned right partitions, the second with the queue <<tail, T>>; the call
\* has run and lists the one row left of the cell, then the rows of both
\* right blocks.
C19_Witness ==
    /\ mlast.op = "broadcast_apply"
    /\ mlast.axis = 1
    /\ left.nrows = 1 /\ left.ncols = 1
    /\ right.nrows = 2 /\ right.ncols = 1
    /\ left.cells[1][1].call_queue = <<"T", "tail">>
    /\ right.cells[2][1].call_queue = <<"tail", "T">>
    /\ futures[mlast.nfutures + 1].done
    /\ futures[mlast.nfutures + 1].out.err = ""
    /\ futures[mlast.nfutures + 1].out.df.index = <<11, 50, 51, 71>>

\* The outcome of a queue had no storage been read-only.
Recovered(part) == Unhindered(part.call_queue, futures[part.future].out)

\* C20 as stated, for the deploy_func path: an in-place write that raises
\* ValueError in a queue dispatched by broadcast_apply is retried on a copy,
\* so no deploy_func call with blocks to join fails with ValueError.
C20_RetryOnEveryPath ==
    (mlast.op = "broadcast_apply" /\ mlast.err = "")
        => \A k \in 1..Submitted :
              (futures[mlast.nfutures + k].done
                 /\ futures[mlast.nfutures + k].others # <<>>)
                 => futures[mlast.nfutures + k].out.err # "ValueError"

\* Witness of C20: the queue <<freeze, setitem>> of a left cell was
\* dispatched by broadcast_apply; the write would go through on a copy, and
\* the deploy_func call has failed with ValueError.
C20_Witness ==
    /\ mlast.op = "broadcast_apply"
    /\ left.nrows = 1 /\ left.ncols = 1
    /\ right.nrows = 1 /\ right.ncols = 1
    /\ left.cells[1][1].call_queue = <<"freeze", "setitem">>
    /\ futures[mlast.nfutures + 1].call_queue_df = <<"freeze", "setitem">>
    /\ futures[mlast.nfutures + 1].others # <<>>
    /\ Recovered(left.cells[1][1]).err = ""
    /\ futures[mlast.nfutures + 1].done
    /\ futures[mlast.nfutures + 1].out.err = "ValueError"

\* A cache whose integer can be read: resolved, or a reference to an output
\* of a call that has run without error.
Readable(c) == c.k = "int" \/ (c.k = "ref" /\ tasks[c.t].done /\ tasks[c.t].out.err = "")

\* A readable cache of partition p holds `count`, a count of the block behind
\* p's handle, which is there.
Describes(p, c, count) ==
    Readable(c)
        => /\ tasks[parts[p].oid.t].done
           /\ tasks[parts[p].oid.t].out.err = ""
           /\ CacheValue(c) = count

\* A pending ip cache of partition p refers to the call that made the block
\* behind p's handle, or to the identity call ip() made on that handle.
IpOfHandle(p, c) ==
    c.k = "ref"
        => \/ c.t = parts[p].oid.t
           \/ /\ tasks[c.t].fn = "deploy"
              /\ tasks[c.t].queue = <<"identity">>
              /\ tasks[c.t].arg = parts[p].oid

\* C21: in every partition a client reaches by put, add_to_apply_calls,
\* apply, drain_call_queue, copy, get, length, width and ip, a non-empty call
\* queue implies that the length, width and ip caches are all unknown; a
\* length or width cache that can be read holds the row or column count of
\* the block behind the current handle, and a pending ip cache belongs to
\* that handle.
C21_MetadataNeverStale ==
    \A p \in DOMAIN parts :
        /\ parts[p].call_queue # <<>>
              => /\ parts[p].length_cache.k = "none"
                 /\ parts[p].width_cache.k = "none"
                 /\ parts[p].ip_cache.k = "none"
        /\ Describes(p, parts[p].length_cache, LenOf(tasks[parts[p].oid.t].out.df))
        /\ Describes(p, parts[p].width_cache, ColsOf(tasks[parts[p].oid.t].out.df))
        /\ IpOfHandle(p, parts[p].ip_cache)

\* Witness of C21: length() drained a partition with a queue and left it
\* with an empty queue, a resolved length and a pending width, while a copy
\* taken before still has the queue over the old handle and no cache.
C21_Witness ==
    /\ last.op = "length"
    /\ last.pre.call_queue # <<>>
    /\ last.ret.err = ""
    /\ parts[last.part].call_queue = <<>>
    /\ parts[last.part].length_cache = IntC(last.ret.n)
    /\ parts[last.part].width_cache.k = "ref"
    /\ \E q \in DOMAIN parts :
          /\ q # last.part
          /\ parts[q] = last.pre
          /\ parts[q].length_cache.k = "none"

====
